---------------------------- MODULE Spec2Model ----------------------------
(***************************************************************************)
(* Authoritative engine of the hiragana Scrabble server: TileBag,          *)
(* BoardValidator, Game (turn state machine, deadline timer), Room and the *)
(* WebSocket message handlers of server/src/index.ts.                      *)
(*                                                                         *)
(* One room is modelled.  A connection is a WebSocket; the locals playerId *)
(* and roomCode of its handler closure are connPlayerId and connRoomCode.  *)
(* Timers are handles in a set of live timers; firing or clearing removes  *)
(* the handle.  Absent values ('' / undefined / null) are "" or 0.         *)
(***************************************************************************)
EXTENDS Integers, Sequences, FiniteSets, TLC

(***************************************************************************)
(* Program constants (server/src/tiles.ts, server/src/index.ts).           *)
(***************************************************************************)
RACK_SIZE == 7
BOARD_SIZE == 15
BINGO_BONUS == 50

(***************************************************************************)
(* Bounds of the model.                                                    *)
(***************************************************************************)
\* connections (WebSockets) that ever reach the server
NumConns == 3
\* copies of each tile kind in the reduced frequency table
CountA == 12
CountB == 10
CountX == 4
CountBlank == 2
\* turn records after which no further turn is explored
MaxTurns == 4
\* accepted plays and exchanges explored in one game
MaxMoves == 2
\* START_GAME requests that reach Game.start in one room
MaxStarts == 2
\* longest placement list / tile-id list a client submits
MaxListLen == 2
RoomMaxTurns == 4
PlayMaxTurns == 5
RejoinMaxTurns == 1
SwapMaxTurns == 4
DeadlineConns == 2
BoardMaxTurns == 4
NumSockets == 5
JoinMaxTurns == 4

Conns == 1 .. NumConns
Sockets == 1 .. NumSockets
NoPlayer == 0
NoTimer == 0
ROOM == "ROOM"

(***************************************************************************)
(* tiles.ts: the frequency table, reduced to four kinds.  "x" is a letter  *)
(* no dictionary word contains; "" is the blank.                           *)
(***************************************************************************)
TILE_DEFINITIONS ==
  << [char |-> "a", points |-> 1, count |-> CountA],
     [char |-> "b", points |-> 2, count |-> CountB],
     [char |-> "x", points |-> 3, count |-> CountX],
     [char |-> "",  points |-> 0, count |-> CountBlank] >>

RECURSIVE SumCounts(_)
SumCounts(k) == IF k = 0 THEN 0 ELSE TILE_DEFINITIONS[k].count + SumCounts(k - 1)

NumTiles == SumCounts(Len(TILE_DEFINITIONS))
TileIds == 0 .. NumTiles - 1

\* TileBag.init: ids are handed out sequentially, definition by definition
DefOf(id) == CHOOSE k \in 1 .. Len(TILE_DEFINITIONS) :
                SumCounts(k - 1) <= id /\ id < SumCounts(k)

\* A tile in the state is [id, assignedChar]; char, points and isBlank never
\* change after TileBag.init and are read off the tile's id.
TileDefOf == [id \in TileIds |-> TILE_DEFINITIONS[DefOf(id)]]
baseChar(tile) == TileDefOf[tile.id].char
basePoints(tile) == TileDefOf[tile.id].points
isBlank(tile) == TileDefOf[tile.id].char = ""

MakeTile(id) == [id |-> id, assignedChar |-> ""]

InitTiles == [i \in 1 .. NumTiles |-> MakeTile(i - 1)]

(***************************************************************************)
(* Sequence helpers.                                                       *)
(***************************************************************************)
Range(s) == {s[i] : i \in 1 .. Len(s)}
Reverse(s) == [i \in 1 .. Len(s) |-> s[Len(s) + 1 - i]]
\* a riffle: first half and second half interleaved
Riffle(s) ==
  LET n == Len(s)
      h == (n + 1) \div 2
  IN [i \in 1 .. n |-> IF i % 2 = 1 THEN s[(i + 1) \div 2] ELSE s[h + i \div 2]]
Filter(s, Keep(_)) == SelectSeq(s, Keep)
RECURSIVE SumSeq(_)
SumSeq(s) == IF s = << >> THEN 0 ELSE Head(s) + SumSeq(Tail(s))
SeqsUpTo(S, n) == UNION {[1 .. k -> S] : k \in 0 .. n}
Min(S) == CHOOSE x \in S : \A y \in S : x <= y
Max(S) == CHOOSE x \in S : \A y \in S : x >= y

(***************************************************************************)
(* TileBag.shuffle is a uniformly random permutation; the model explores   *)
(* two of its outcomes, named by sh.                                       *)
(***************************************************************************)
ShuffleOutcomes == {"riffle", "reverse"}
shuffle(ts, sh) == IF sh = "riffle" THEN Riffle(ts) ELSE Reverse(ts)

\* TileBag.draw: splice(0, min(count, length)); <<drawn, rest>>
draw(tiles, count) ==
  LET n == IF count < Len(tiles) THEN count ELSE Len(tiles)
  IN [drawn |-> SubSeq(tiles, 1, n), rest |-> SubSeq(tiles, n + 1, Len(tiles))]

\* TileBag.drawToFill
drawToFill(tiles, currentCount) ==
  LET needed == RACK_SIZE - currentCount
  IN IF needed <= 0 THEN [drawn |-> << >>, rest |-> tiles] ELSE draw(tiles, needed)

\* TileBag.exchange up to (not including) the final shuffle: the replacement
\* tiles are drawn, then the returned tiles are pushed, blanks reset.
\* The length test is the caller's (exchangeTiles tests it first too).
exchange(tiles, tilesToReturn) ==
  LET d == draw(tiles, Len(tilesToReturn))
      back == [i \in 1 .. Len(tilesToReturn) |->
                 IF isBlank(tilesToReturn[i])
                 THEN [tilesToReturn[i] EXCEPT !.assignedChar = ""]
                 ELSE tilesToReturn[i]]
  IN [drawn |-> d.drawn, rest |-> d.rest \o back]

(***************************************************************************)
(* board.ts: the bonus layout.                                             *)
(***************************************************************************)
BONUS_POSITIONS ==
  << <<0, 0, "TW">>, <<0, 7, "TW">>, <<7, 0, "TW">>,
     <<1, 1, "DW">>, <<2, 2, "DW">>, <<3, 3, "DW">>, <<4, 4, "DW">>,
     <<1, 5, "TL">>, <<5, 1, "TL">>, <<5, 5, "TL">>,
     <<0, 3, "DL">>, <<3, 0, "DL">>, <<2, 6, "DL">>, <<6, 2, "DL">>,
     <<6, 6, "DL">>, <<3, 7, "DL">>, <<7, 3, "DL">>,
     <<7, 7, "START">> >>

mirrorPositions(row, col) ==
  LET maxIdx == BOARD_SIZE - 1 IN
  { <<row, col>>, <<row, maxIdx - col>>, <<maxIdx - row, col>>,
    <<maxIdx - row, maxIdx - col>>, <<col, row>>, <<col, maxIdx - row>>,
    <<maxIdx - col, row>>, <<maxIdx - col, maxIdx - row>> }

\* createBonusLayout: the seeds are applied in order, and a cell keeps its
\* first kind unless the later kind is START.
seedsAt(cell) ==
  {k \in 1 .. Len(BONUS_POSITIONS) :
     cell \in mirrorPositions(BONUS_POSITIONS[k][1], BONUS_POSITIONS[k][2])}

createBonusLayout ==
  [cell \in (0 .. BOARD_SIZE - 1) \X (0 .. BOARD_SIZE - 1) |->
     LET ks == seedsAt(cell)
         written == {k \in ks : k = Min(ks) \/ BONUS_POSITIONS[k][3] = "START"}
     IN IF ks = {} THEN "NONE" ELSE BONUS_POSITIONS[Max(written)][3]]

(***************************************************************************)
(* Dictionary.isValid: membership in the word list.  The list itself is    *)
(* data outside the sources; here it holds every word of two or more       *)
(* letters over {a, b}.  A word is the sequence of its characters.         *)
(***************************************************************************)
DictionaryLetters == {"a", "b"}
\* variant: every text of two characters or more is taken for a word
isValid_anyText(word) == Len(word) >= 2

isValid(word) == Len(word) >= 2 /\ \A i \in 1 .. Len(word) : word[i] \in DictionaryLetters

(***************************************************************************)
(* BoardValidator.  A board is a function from its occupied cells          *)
(* <<row, col>> to tiles: board[r][c] !== null is <<r, c>> \in DOMAIN b.   *)
(* A placement is [row, col, tileId, assignedChar].                        *)
(***************************************************************************)
InBounds(r, c) == r >= 0 /\ r < BOARD_SIZE /\ c >= 0 /\ c < BOARD_SIZE

\* new Map(player.rack.map(t => [t.id, t])): a later entry replaces an earlier
rackMap(rack) ==
  [id \in {rack[i].id : i \in 1 .. Len(rack)} |->
     rack[Max({i \in 1 .. Len(rack) : rack[i].id = id})]]

\* variant: a placement may name a cell that holds a tile
RECURSIVE placementError_overwrite(_, _, _, _)
placementError_overwrite(b, placements, rackTiles, i) ==
  IF i > Len(placements) THEN "none"
  ELSE LET p == placements[i] IN
       IF p.tileId \notin DOMAIN rackTiles THEN "tile not in rack"
       ELSE IF ~InBounds(p.row, p.col) THEN "out of bounds"
       ELSE IF isBlank(rackTiles[p.tileId]) /\ p.assignedChar = ""
            THEN "blank without character"
       ELSE placementError_overwrite(b, placements, rackTiles, i + 1)

\* variant: each kind of failure is looked for in every placement before the next kind
placementError_byKind(b, placements, rackTiles, i) ==
  LET Rest == i .. Len(placements) IN
  IF \E k \in Rest : placements[k].tileId \notin DOMAIN rackTiles THEN "tile not in rack"
  ELSE IF \E k \in Rest : ~InBounds(placements[k].row, placements[k].col)
       THEN "out of bounds"
  ELSE IF \E k \in Rest : <<placements[k].row, placements[k].col>> \in DOMAIN b
       THEN "cell occupied"
  ELSE IF \E k \in Rest : isBlank(rackTiles[placements[k].tileId])
                             /\ placements[k].assignedChar = ""
       THEN "blank without character"
  ELSE "none"

\* the per-placement loop of validate, from placement i on: the first error
RECURSIVE placementError(_, _, _, _)
placementError(b, placements, rackTiles, i) ==
  IF i > Len(placements) THEN "none"
  ELSE LET p == placements[i] IN
       IF p.tileId \notin DOMAIN rackTiles THEN "tile not in rack"
       ELSE IF ~InBounds(p.row, p.col) THEN "out of bounds"
       ELSE IF <<p.row, p.col>> \in DOMAIN b THEN "cell occupied"
       ELSE IF isBlank(rackTiles[p.tileId]) /\ p.assignedChar = ""
            THEN "blank without character"
       ELSE placementError(b, placements, rackTiles, i + 1)

\* placedTiles: the copy of the rack tile, the blank's character applied
placedTilesOf(placements, rackTiles) ==
  [i \in 1 .. Len(placements) |->
     LET p == placements[i]
         tile == rackTiles[p.tileId]
     IN [tile |-> IF isBlank(tile) THEN [tile EXCEPT !.assignedChar = p.assignedChar]
                  ELSE tile,
         row |-> p.row, col |-> p.col]]

\* tempBoard: the placed tiles written in order over a copy of the board
tempBoardOf(b, placedTiles) ==
  LET newPositions == {<<placedTiles[i].row, placedTiles[i].col>> : i \in 1 .. Len(placedTiles)}
  IN [cell \in DOMAIN b \cup newPositions |->
        IF cell \in newPositions
        THEN placedTiles[Max({i \in 1 .. Len(placedTiles) :
                                <<placedTiles[i].row, placedTiles[i].col>> = cell})].tile
        ELSE b[cell]]

\* getWordAt: back to the start of the run, then forward collecting it
RECURSIVE runStart(_, _, _, _, _)
runStart(b, r, c, dr, dc) ==
  IF r - dr >= 0 /\ c - dc >= 0 /\ <<r - dr, c - dc>> \in DOMAIN b
  THEN runStart(b, r - dr, c - dc, dr, dc)
  ELSE <<r, c>>

RECURSIVE runTiles(_, _, _, _, _, _)
runTiles(b, r, c, dr, dc, newPositions) ==
  IF r < BOARD_SIZE /\ c < BOARD_SIZE /\ <<r, c>> \in DOMAIN b
  THEN << [tile |-> b[<<r, c>>], row |-> r, col |-> c,
           isNew |-> (<<r, c>> \in newPositions)] >>
       \o runTiles(b, r + dr, c + dc, dr, dc, newPositions)
  ELSE << >>

\* the character a tile contributes to the word text
wordChar(tile) ==
  IF isBlank(tile) /\ tile.assignedChar # "" THEN tile.assignedChar ELSE baseChar(tile)

\* null is [word |-> << >>, tiles |-> << >>]
getWordAt(b, row, col, direction, newPositions) ==
  LET dr == IF direction = "vertical" THEN 1 ELSE 0
      dc == IF direction = "horizontal" THEN 1 ELSE 0
      start == runStart(b, row, col, dr, dc)
      ts == runTiles(b, start[1], start[2], dr, dc, newPositions)
  IN IF Len(ts) < 2 THEN [word |-> << >>, tiles |-> << >>]
     ELSE [word |-> [i \in 1 .. Len(ts) |-> wordChar(ts[i].tile)], tiles |-> ts]

wordKey(prefix, w) == <<prefix, w.tiles[1].row, w.tiles[1].col>>

\* variant: a word is kept every time a placed tile leads to it
addWord_everyTime(acc, prefix, w) ==
  IF Len(w.tiles) >= 2
  THEN [words |-> Append(acc.words, w), checked |-> acc.checked \cup {wordKey(prefix, w)}]
  ELSE acc

\* a word of 2 or more tiles is kept unless its key was seen; acc is [words, checked]
addWord(acc, prefix, w) ==
  IF Len(w.tiles) >= 2 /\ wordKey(prefix, w) \notin acc.checked
  THEN [words |-> Append(acc.words, w), checked |-> acc.checked \cup {wordKey(prefix, w)}]
  ELSE acc

\* extractWords from placed tile i on
RECURSIVE extractFrom(_, _, _, _, _)
extractFrom(b, placedTiles, newPositions, i, acc) ==
  IF i > Len(placedTiles) THEN acc.words
  ELSE extractFrom(b, placedTiles, newPositions, i + 1,
         addWord(addWord(acc, "h",
                         getWordAt(b, placedTiles[i].row, placedTiles[i].col,
                                   "horizontal", newPositions)),
                 "v",
                 getWordAt(b, placedTiles[i].row, placedTiles[i].col,
                           "vertical", newPositions)))

extractWords(b, placedTiles, newPositions) ==
  extractFrom(b, placedTiles, newPositions, 1, [words |-> << >>, checked |-> {}])

\* the checks of validate after the per-placement loop
\* variant: the placements need not lie in one line
layoutError_anyShape(b, placedTiles, firstMove) ==
  LET n == Len(placedTiles)
      rows == {placedTiles[i].row : i \in 1 .. n}
      cols == {placedTiles[i].col : i \in 1 .. n}
      isHorizontal == Cardinality(rows) = 1
      tempBoard == tempBoardOf(b, placedTiles)
      gap == IF isHorizontal
             THEN \E c \in Min(cols) .. Max(cols) : <<placedTiles[1].row, c>> \notin DOMAIN tempBoard
             ELSE \E r \in Min(rows) .. Max(rows) : <<r, placedTiles[1].col>> \notin DOMAIN tempBoard
      center == BOARD_SIZE \div 2
      touchesCenter == \E i \in 1 .. n : placedTiles[i].row = center /\ placedTiles[i].col = center
      adjacent == \E i \in 1 .. n : \E d \in {<<0, 1>>, <<0, -1>>, <<1, 0>>, <<-1, 0>>} :
                     LET nr == placedTiles[i].row + d[1]
                         nc == placedTiles[i].col + d[2]
                     IN InBounds(nr, nc) /\ <<nr, nc>> \in DOMAIN b
  IN IF gap THEN "gap between tiles"
     ELSE IF firstMove /\ ~touchesCenter THEN "first move misses center"
     ELSE IF firstMove /\ n < 2 THEN "first move too short"
     ELSE IF ~firstMove /\ ~adjacent THEN "not adjacent"
     ELSE "none"

\* variant: the first move need not pass through the center
layoutError_anywhere(b, placedTiles, firstMove) ==
  LET n == Len(placedTiles)
      rows == {placedTiles[i].row : i \in 1 .. n}
      cols == {placedTiles[i].col : i \in 1 .. n}
      isHorizontal == Cardinality(rows) = 1
      isVertical == Cardinality(cols) = 1
      tempBoard == tempBoardOf(b, placedTiles)
      gap == IF isHorizontal
             THEN \E c \in Min(cols) .. Max(cols) : <<placedTiles[1].row, c>> \notin DOMAIN tempBoard
             ELSE \E r \in Min(rows) .. Max(rows) : <<r, placedTiles[1].col>> \notin DOMAIN tempBoard
      adjacent == \E i \in 1 .. n : \E d \in {<<0, 1>>, <<0, -1>>, <<1, 0>>, <<-1, 0>>} :
                     LET nr == placedTiles[i].row + d[1]
                         nc == placedTiles[i].col + d[2]
                     IN InBounds(nr, nc) /\ <<nr, nc>> \in DOMAIN b
  IN IF ~isHorizontal /\ ~isVertical THEN "not in one line"
     ELSE IF gap THEN "gap between tiles"
     ELSE IF firstMove /\ n < 2 THEN "first move too short"
     ELSE IF ~firstMove /\ ~adjacent THEN "not adjacent"
     ELSE "none"

\* variant: a later move need not touch a tile of the board
layoutError_detached(b, placedTiles, firstMove) ==
  LET n == Len(placedTiles)
      rows == {placedTiles[i].row : i \in 1 .. n}
      cols == {placedTiles[i].col : i \in 1 .. n}
      isHorizontal == Cardinality(rows) = 1
      isVertical == Cardinality(cols) = 1
      tempBoard == tempBoardOf(b, placedTiles)
      gap == IF isHorizontal
             THEN \E c \in Min(cols) .. Max(cols) : <<placedTiles[1].row, c>> \notin DOMAIN tempBoard
             ELSE \E r \in Min(rows) .. Max(rows) : <<r, placedTiles[1].col>> \notin DOMAIN tempBoard
      center == BOARD_SIZE \div 2
      touchesCenter == \E i \in 1 .. n : placedTiles[i].row = center /\ placedTiles[i].col = center
  IN IF ~isHorizontal /\ ~isVertical THEN "not in one line"
     ELSE IF gap THEN "gap between tiles"
     ELSE IF firstMove /\ ~touchesCenter THEN "first move misses center"
     ELSE IF firstMove /\ n < 2 THEN "first move too short"
     ELSE "none"

layoutError(b, placedTiles, firstMove) ==
  LET n == Len(placedTiles)
      rows == {placedTiles[i].row : i \in 1 .. n}
      cols == {placedTiles[i].col : i \in 1 .. n}
      isHorizontal == Cardinality(rows) = 1
      isVertical == Cardinality(cols) = 1
      tempBoard == tempBoardOf(b, placedTiles)
      gap == IF isHorizontal
             THEN \E c \in Min(cols) .. Max(cols) : <<placedTiles[1].row, c>> \notin DOMAIN tempBoard
             ELSE \E r \in Min(rows) .. Max(rows) : <<r, placedTiles[1].col>> \notin DOMAIN tempBoard
      center == BOARD_SIZE \div 2
      touchesCenter == \E i \in 1 .. n : placedTiles[i].row = center /\ placedTiles[i].col = center
      adjacent == \E i \in 1 .. n : \E d \in {<<0, 1>>, <<0, -1>>, <<1, 0>>, <<-1, 0>>} :
                     LET nr == placedTiles[i].row + d[1]
                         nc == placedTiles[i].col + d[2]
                     IN InBounds(nr, nc) /\ <<nr, nc>> \in DOMAIN b
  IN IF ~isHorizontal /\ ~isVertical THEN "not in one line"
     ELSE IF gap THEN "gap between tiles"
     ELSE IF firstMove /\ ~touchesCenter THEN "first move misses center"
     ELSE IF firstMove /\ n < 2 THEN "first move too short"
     ELSE IF ~firstMove /\ ~adjacent THEN "not adjacent"
     ELSE "none"

\* the first word the dictionary rejects, by position; 0 if none
firstUnknown(words) ==
  LET bad == {i \in 1 .. Len(words) : ~isValid(words[i].word)}
  IN IF bad = {} THEN 0 ELSE Min(bad)

\* variant: the words are not looked up in the dictionary
validateWords_unchecked(words) ==
  IF Len(words) = 0 THEN [error |-> "no word formed", words |-> << >>]
  ELSE [error |-> "none", words |-> words]

\* the end of validate: the words must exist and be in the dictionary
validateWords(words) ==
  IF Len(words) = 0 THEN [error |-> "no word formed", words |-> << >>]
  ELSE IF firstUnknown(words) # 0 THEN [error |-> "unknown word", words |-> << >>]
  ELSE [error |-> "none", words |-> words]

\* validate once every placement was accepted on its own
validateLayout(b, placedTiles, firstMove) ==
  IF layoutError(b, placedTiles, firstMove) # "none"
  THEN [error |-> layoutError(b, placedTiles, firstMove), words |-> << >>]
  ELSE validateWords(extractWords(tempBoardOf(b, placedTiles), placedTiles,
         {<<placedTiles[i].row, placedTiles[i].col>> : i \in 1 .. Len(placedTiles)}))

\* validate: [error, words]; error "none" means the words are returned
validate(b, placements, rackTiles, firstMove) ==
  IF Len(placements) = 0 THEN [error |-> "no placements", words |-> << >>]
  ELSE IF placementError(b, placements, rackTiles, 1) # "none"
  THEN [error |-> placementError(b, placements, rackTiles, 1), words |-> << >>]
  ELSE validateLayout(b, placedTilesOf(placements, rackTiles), firstMove)

(***************************************************************************)
(* Game.playTiles: the scoring loop.                                       *)
(***************************************************************************)
bonusLayout == createBonusLayout

tilePoints(tile) == IF isBlank(tile) THEN 0 ELSE basePoints(tile)

\* variant: every tile counts at face value, on a letter bonus or not
letterScore_faceValue(wt) == tilePoints(wt.tile)

\* the letter contribution and the word multiplier of one word tile
letterScore(wt) ==
  LET bonus == bonusLayout[<<wt.row, wt.col>>] IN
  IF wt.isNew /\ bonus = "DL" THEN tilePoints(wt.tile) * 2
  ELSE IF wt.isNew /\ bonus = "TL" THEN tilePoints(wt.tile) * 3
  ELSE tilePoints(wt.tile)

\* variant: word bonuses count for every tile of a word, old or new
wordFactor_anyTile(wt) ==
  LET bonus == bonusLayout[<<wt.row, wt.col>>] IN
  IF bonus \in {"DW", "START"} THEN 2
  ELSE IF bonus = "TW" THEN 3
  ELSE 1

wordFactor(wt) ==
  LET bonus == bonusLayout[<<wt.row, wt.col>>] IN
  IF wt.isNew /\ bonus \in {"DW", "START"} THEN 2
  ELSE IF wt.isNew /\ bonus = "TW" THEN 3
  ELSE 1

RECURSIVE ProdSeq(_)
ProdSeq(s) == IF s = << >> THEN 1 ELSE Head(s) * ProdSeq(Tail(s))

wordScoreOf(wf) ==
  SumSeq([i \in 1 .. Len(wf.tiles) |-> letterScore(wf.tiles[i])])
    * ProdSeq([i \in 1 .. Len(wf.tiles) |-> wordFactor(wf.tiles[i])])

totalScoreOf(wordsFound, placements) ==
  SumSeq([i \in 1 .. Len(wordsFound) |-> wordScoreOf(wordsFound[i])])
    + (IF Len(placements) = RACK_SIZE THEN BINGO_BONUS ELSE 0)

VARIABLES
  \* RoomManager.rooms (codes), Room.players, Room.hostId
  rooms, roomPlayers, hostId,
  \* Game fields
  board, players, currentPlayerIndex, tiles, turnHistory, phase,
  consecutivePasses, isFirstMove, turnTimer,
  \* the runtime's pending setTimeout callbacks
  liveTimers,
  \* per connection: the handler's locals, and whether the socket is open
  connPlayerId, connRoomCode, connOpen,
  \* the last event handled and whether it was accepted
  lastEvent,
  \* calls of Game.start so far
  starts,
  \* transitions to finished (runs of Game.endGame) so far
  ends

gameVars == <<board, players, currentPlayerIndex, tiles, turnHistory, phase,
              consecutivePasses, isFirstMove, turnTimer>>
roomVars == <<rooms, roomPlayers, hostId>>
connVars == <<connPlayerId, connRoomCode, connOpen>>
vars == <<rooms, roomPlayers, hostId, board, players, currentPlayerIndex, tiles,
          turnHistory, phase, consecutivePasses, isFirstMove, turnTimer,
          liveTimers, connPlayerId, connRoomCode, connOpen, lastEvent, starts, ends>>


(***************************************************************************)
(* Timers.  A live timer is [h, kind, player, turn]: its handle, "turn" or *)
(* "grace", the participant a grace timer is for, and the number of turn   *)
(* records when it was armed.                                              *)
(***************************************************************************)
Handles(live) == {t.h : t \in live}
\* setTimeout returns a handle nothing else refers to
FreshHandle(live, referenced) ==
  Min({h \in 1 .. Cardinality(live) + Cardinality(referenced) + 1 :
         h \notin Handles(live) /\ h \notin referenced})
\* clearTimeout: a no-op on a fired or cleared handle
clearTimeout(live, h) == {t \in live : t.h # h}

ReconnectTimers == {roomPlayers[p].reconnectTimer : p \in DOMAIN roomPlayers} \ {NoTimer}

(***************************************************************************)
(* Game.  G is the object's state as a record; each method maps a record   *)
(* to the record after the call.  live is the runtime's timer set and      *)
(* refs the handles held elsewhere (Room's reconnect timers).              *)
(***************************************************************************)
G == [board |-> board, players |-> players,
      currentPlayerIndex |-> currentPlayerIndex, tiles |-> tiles,
      turnHistory |-> turnHistory, phase |-> phase,
      consecutivePasses |-> consecutivePasses, isFirstMove |-> isFirstMove,
      turnTimer |-> turnTimer, live |-> liveTimers, refs |-> ReconnectTimers]

SetGame(g) ==
  /\ board' = g.board
  /\ players' = g.players
  /\ currentPlayerIndex' = g.currentPlayerIndex
  /\ tiles' = g.tiles
  /\ turnHistory' = g.turnHistory
  /\ phase' = g.phase
  /\ consecutivePasses' = g.consecutivePasses
  /\ isFirstMove' = g.isFirstMove
  /\ turnTimer' = g.turnTimer
  /\ liveTimers' = g.live
  /\ ends' = IF phase # "finished" /\ g.phase = "finished" THEN ends + 1 ELSE ends

\* variant: the handle is dropped but the pending timeout is not cancelled
clearTurnTimer_drop(g) == [g EXCEPT !.turnTimer = NoTimer]

clearTurnTimer(g) ==
  IF g.turnTimer # NoTimer
  THEN [g EXCEPT !.live = clearTimeout(g.live, g.turnTimer), !.turnTimer = NoTimer]
  ELSE g

startTurnTimer(g) ==
  LET g1 == clearTurnTimer(g) IN
  IF g1.phase # "playing" THEN g1
  ELSE LET h == FreshHandle(g1.live, g1.refs) IN
       [g1 EXCEPT !.live = g1.live \cup {[h |-> h, kind |-> "turn", player |-> NoPlayer,
                                          turn |-> Len(g1.turnHistory)]},
                  !.turnTimer = h]

currentPlayerId(g) ==
  IF g.currentPlayerIndex + 1 \in DOMAIN g.players
  THEN g.players[g.currentPlayerIndex + 1].id ELSE NoPlayer

\* variant: only the phase is checked
assertTurn_phaseOnly(g, playerId) ==
  IF g.phase # "playing" THEN "game not started" ELSE "none"

assertTurn(g, playerId) ==
  IF g.phase # "playing" THEN "game not started"
  ELSE IF currentPlayerId(g) # playerId THEN "not your turn"
  ELSE "none"

\* variant: the turn moves on under the deadline armed for the previous turn
advanceTurn_sameDeadline(g) ==
  IF g.phase # "playing" THEN g
  ELSE [g EXCEPT !.currentPlayerIndex = (g.currentPlayerIndex + 1) % Len(g.players)]

advanceTurn(g) ==
  IF g.phase # "playing" THEN g
  ELSE startTurnTimer([g EXCEPT !.currentPlayerIndex =
                         (g.currentPlayerIndex + 1) % Len(g.players)])

rackPoints(rack) == SumSeq([i \in 1 .. Len(rack) |-> basePoints(rack[i])])

endGame(g) ==
  LET g1 == clearTurnTimer([g EXCEPT !.phase = "finished"]) IN
  [g1 EXCEPT !.players = [i \in 1 .. Len(g1.players) |->
     [g1.players[i] EXCEPT !.score = g1.players[i].score - rackPoints(g1.players[i].rack)]]]

\* variant: the game goes on for one pass more than twice the number of seats
checkGameEnd_onePassMore(g) ==
  IF g.consecutivePasses > Len(g.players) * 2 THEN endGame(g)
  ELSE IF (\E i \in 1 .. Len(g.players) : Len(g.players[i].rack) = 0) /\ Len(g.tiles) = 0
       THEN endGame(g)
  ELSE g

\* variant: only the rack of the participant whose turn comes next is looked at
checkGameEnd_nextRackOnly(g) ==
  IF g.consecutivePasses >= Len(g.players) * 2 THEN endGame(g)
  ELSE IF Len(g.players[g.currentPlayerIndex + 1].rack) = 0 /\ Len(g.tiles) = 0
       THEN endGame(g)
  ELSE g

checkGameEnd(g) ==
  IF g.consecutivePasses >= Len(g.players) * 2 THEN endGame(g)
  ELSE IF (\E i \in 1 .. Len(g.players) : Len(g.players[i].rack) = 0) /\ Len(g.tiles) = 0
       THEN endGame(g)
  ELSE g

toPlayerInfo(p) ==
  [id |-> p.id, score |-> p.score, tileCount |-> Len(p.rack), connected |-> p.connected]

\* getWinner's null
NoWinner == [id |-> NoPlayer, score |-> 0, tileCount |-> 0, connected |-> FALSE]

\* variant: among equal scores the participant who joined last comes first
insertByScore_tiesLast(sorted, p) ==
  LET k == Cardinality({i \in 1 .. Len(sorted) : sorted[i].score > p.score})
  IN SubSeq(sorted, 1, k) \o <<p>> \o SubSeq(sorted, k + 1, Len(sorted))

\* one step of the stable sort by (a, b) => b.score - a.score: p goes behind
\* every element that does not score less
insertByScore(sorted, p) ==
  LET k == Cardinality({i \in 1 .. Len(sorted) : sorted[i].score >= p.score})
  IN SubSeq(sorted, 1, k) \o <<p>> \o SubSeq(sorted, k + 1, Len(sorted))

\* [...players].sort((a, b) => b.score - a.score)
RECURSIVE sortedByScore(_)
sortedByScore(ps) ==
  IF ps = << >> THEN << >>
  ELSE insertByScore(sortedByScore(SubSeq(ps, 1, Len(ps) - 1)), ps[Len(ps)])

getWinner(g) ==
  IF g.phase # "finished" THEN NoWinner
  ELSE toPlayerInfo(sortedByScore(g.players)[1])

passRecord(player) == [playerId |-> player.id, action |-> "pass", totalScore |-> 0]

\* variant: an expired deadline moves the turn on without counting as a pass
forcePass_uncounted(g) ==
  LET player == g.players[g.currentPlayerIndex + 1]
      g1 == [g EXCEPT !.turnHistory = Append(g.turnHistory, passRecord(player))]
  IN checkGameEnd(advanceTurn(g1))

forcePass(g) ==
  LET player == g.players[g.currentPlayerIndex + 1]
      g1 == [g EXCEPT !.consecutivePasses = g.consecutivePasses + 1,
                      !.turnHistory = Append(g.turnHistory, passRecord(player))]
  IN CHOOSE ended \in {checkGameEnd(advanced) : advanced \in {advanceTurn(g1)}} : TRUE

\* each method below returns [g, error]; error "none" means it returned normally
Ok(g) == [g |-> g, error |-> "none"]
Throw(g, e) == [g |-> g, error |-> e]

addPlayer(g, id) ==
  IF g.phase # "waiting" THEN Throw(g, "game in progress")
  ELSE IF Len(g.players) >= 4 THEN Throw(g, "at most 4 players")
  ELSE IF \E i \in 1 .. Len(g.players) : g.players[i].id = id THEN Throw(g, "already joined")
  ELSE Ok([g EXCEPT !.players = Append(g.players,
            [id |-> id, score |-> 0, rack |-> << >>, connected |-> TRUE])])

removePlayer(g, id) ==
  LET Keep(p) == p.id # id IN [g EXCEPT !.players = SelectSeq(g.players, Keep)]

setConnected(g, id, connected) ==
  [g EXCEPT !.players = [i \in 1 .. Len(g.players) |->
     IF i = Min({j \in 1 .. Len(g.players) : g.players[j].id = id} \cup {Len(g.players) + 1})
     THEN [g.players[i] EXCEPT !.connected = connected] ELSE g.players[i]]]

\* the loop of start: player i and the later ones draw RACK_SIZE tiles each
RECURSIVE dealFrom(_, _)
dealFrom(g, i) ==
  IF i > Len(g.players) THEN g
  ELSE LET d == draw(g.tiles, RACK_SIZE) IN
       dealFrom([g EXCEPT !.players[i].rack = d.drawn, !.tiles = d.rest], i + 1)

start(g) ==
  IF Len(g.players) < 2 THEN Throw(g, "need 2 players")
  ELSE Ok(startTurnTimer(dealFrom([g EXCEPT !.phase = "playing"], 1)))

pass(g, playerId) ==
  IF assertTurn(g, playerId) # "none" THEN Throw(g, assertTurn(g, playerId))
  ELSE LET player == g.players[g.currentPlayerIndex + 1]
           g1 == [g EXCEPT !.consecutivePasses = g.consecutivePasses + 1,
                           !.turnHistory = Append(g.turnHistory, passRecord(player))]
       IN Ok(checkGameEnd(advanceTurn(g1)))

\* the commit loop of playTiles: placements written onto the board in order
RECURSIVE commitFrom(_, _, _, _)
commitFrom(b, placements, rackTiles, i) ==
  IF i > Len(placements) THEN b
  ELSE LET p == placements[i]
           tile == rackTiles[p.tileId]
           placed == IF p.assignedChar # "" THEN [tile EXCEPT !.assignedChar = p.assignedChar]
                     ELSE tile
           cell == <<p.row, p.col>>
       IN commitFrom([c \in DOMAIN b \cup {cell} |-> IF c = cell THEN placed ELSE b[c]],
                     placements, rackTiles, i + 1)

\* playTiles after scoring: board, rack, score, flags and history
playCommit(g, placements, totalScore) ==
  LET idx == g.currentPlayerIndex + 1
      player == g.players[idx]
      usedIds == {placements[i].tileId : i \in 1 .. Len(placements)}
      Unused(t) == t.id \notin usedIds
      kept == SelectSeq(player.rack, Unused)
      d == drawToFill(g.tiles, Len(kept))
  IN [g EXCEPT !.board = commitFrom(g.board, placements, rackMap(player.rack), 1),
               !.players[idx].rack = kept \o d.drawn,
               !.players[idx].score = player.score + totalScore,
               !.tiles = d.rest,
               !.isFirstMove = FALSE,
               !.consecutivePasses = 0,
               !.turnHistory = Append(g.turnHistory,
                  [playerId |-> player.id, action |-> "play", totalScore |-> totalScore])]

\* playTiles once the validator returned v
playValidated(g, placements, v) ==
  IF v.error # "none" THEN Throw(g, v.error)
  ELSE Ok(checkGameEnd(advanceTurn(
            playCommit(g, placements, totalScoreOf(v.words, placements)))))

playTiles(g, playerId, placements) ==
  IF assertTurn(g, playerId) # "none" THEN Throw(g, assertTurn(g, playerId))
  ELSE playValidated(g, placements,
         validate(g.board, placements, rackMap(g.players[g.currentPlayerIndex + 1].rack),
                  g.isFirstMove))

\* rack.find(t => t.id === id): the positions holding id; find takes the first
rackFind(rack, id) == {i \in 1 .. Len(rack) : rack[i].id = id}

\* variant: the pass counter is left as it is
exchangeCommit_keepStreak(g, tileIds, sh) ==
  LET idx == g.currentPlayerIndex + 1
      player == g.players[idx]
      tilesToExchange == [i \in 1 .. Len(tileIds) |->
                            player.rack[Min(rackFind(player.rack, tileIds[i]))]]
      x == exchange(g.tiles, tilesToExchange)
      Kept(t) == \A i \in 1 .. Len(tileIds) : tileIds[i] # t.id
      g1 == [g EXCEPT !.tiles = shuffle(x.rest, sh),
                      !.players[idx].rack = SelectSeq(player.rack, Kept) \o x.drawn,
                      !.turnHistory = Append(g.turnHistory,
                         [playerId |-> player.id, action |-> "exchange", totalScore |-> 0])]
  IN Ok(advanceTurn(g1))

\* the part of exchangeTiles after its checks
exchangeCommit(g, tileIds, sh) ==
  LET idx == g.currentPlayerIndex + 1
      player == g.players[idx]
      tilesToExchange == [i \in 1 .. Len(tileIds) |->
                            player.rack[Min(rackFind(player.rack, tileIds[i]))]]
      x == exchange(g.tiles, tilesToExchange)
      Kept(t) == \A i \in 1 .. Len(tileIds) : tileIds[i] # t.id
      g1 == [g EXCEPT !.tiles = shuffle(x.rest, sh),
                      !.players[idx].rack = SelectSeq(player.rack, Kept) \o x.drawn,
                      !.consecutivePasses = 0,
                      !.turnHistory = Append(g.turnHistory,
                         [playerId |-> player.id, action |-> "exchange", totalScore |-> 0])]
  IN Ok(advanceTurn(g1))

\* variant: the pass counter is reset before the rack is checked
exchangeTiles_resetFirst(g, playerId, tileIds, sh) ==
  IF assertTurn(g, playerId) # "none" THEN Throw(g, assertTurn(g, playerId))
  ELSE IF Len(tileIds) = 0 THEN Throw(g, "no tiles selected")
  ELSE IF Len(g.tiles) < Len(tileIds) THEN Throw(g, "not enough tiles in bag")
  ELSE IF \E i \in 1 .. Len(tileIds) :
            rackFind(g.players[g.currentPlayerIndex + 1].rack, tileIds[i]) = {}
  THEN Throw([g EXCEPT !.consecutivePasses = 0], "tile not in rack")
  ELSE exchangeCommit(g, tileIds, sh)

exchangeTiles(g, playerId, tileIds, sh) ==
  IF assertTurn(g, playerId) # "none" THEN Throw(g, assertTurn(g, playerId))
  ELSE IF Len(tileIds) = 0 THEN Throw(g, "no tiles selected")
  ELSE IF Len(g.tiles) < Len(tileIds) THEN Throw(g, "not enough tiles in bag")
  ELSE IF \E i \in 1 .. Len(tileIds) :
            rackFind(g.players[g.currentPlayerIndex + 1].rack, tileIds[i]) = {}
  THEN Throw(g, "tile not in rack")
  ELSE exchangeCommit(g, tileIds, sh)


(***************************************************************************)
(* Room.  roomPlayers maps a participant id to [ws, reconnectTimer].       *)
(* Each method returns the new map, host and game record.                  *)
(***************************************************************************)
R == [players |-> roomPlayers, hostId |-> hostId, game |-> G, error |-> "none"]

MapSet(m, k, v) == [x \in DOMAIN m \cup {k} |-> IF x = k THEN v ELSE m[x]]
MapDelete(m, k) == [x \in DOMAIN m \ {k} |-> m[x]]

SetRoom(r) ==
  /\ roomPlayers' = r.players
  /\ hostId' = r.hostId
  /\ SetGame(r.game)

roomAddPlayer(r, id, ws) ==
  LET ps == MapSet(r.players, id, [ws |-> ws, reconnectTimer |-> NoTimer])
      a == addPlayer(r.game, id)
  IN IF a.error # "none" THEN [r EXCEPT !.players = ps, !.error = a.error]
     ELSE [r EXCEPT !.players = ps, !.game = a.g,
                    !.hostId = IF Cardinality(DOMAIN ps) = 1 THEN id ELSE r.hostId]

roomRemovePlayer(r, id) ==
  LET live1 == IF id \in DOMAIN r.players /\ r.players[id].reconnectTimer # NoTimer
               THEN clearTimeout(r.game.live, r.players[id].reconnectTimer)
               ELSE r.game.live
      g1 == [r.game EXCEPT !.live = live1]
  IN [r EXCEPT !.players = MapDelete(r.players, id),
               !.game = IF g1.phase = "waiting" THEN removePlayer(g1, id) ELSE g1]

\* returns [r, ok]
reconnectPlayer(r, id, ws) ==
  IF id \notin DOMAIN r.players THEN [r |-> r, ok |-> FALSE]
  ELSE LET t == r.players[id].reconnectTimer
           live1 == IF t # NoTimer THEN clearTimeout(r.game.live, t) ELSE r.game.live
       IN [r |-> [r EXCEPT !.players[id] = [ws |-> ws, reconnectTimer |-> NoTimer],
                           !.game = setConnected([r.game EXCEPT !.live = live1], id, TRUE)],
           ok |-> TRUE]

\* variant: a grace timer is armed in every phase
handleDisconnect_alwaysGrace(r, id) ==
  IF id \notin DOMAIN r.players THEN [r |-> r, timeout |-> FALSE]
  ELSE LET g1 == setConnected(r.game, id, FALSE)
           held == ({r.players[p].reconnectTimer : p \in DOMAIN r.players}
                      \cup {g1.turnTimer}) \ {NoTimer}
           h == FreshHandle(g1.live, held)
       IN [r |-> [r EXCEPT !.players[id].reconnectTimer = h,
                           !.game = [g1 EXCEPT !.live = g1.live \cup
                              {[h |-> h, kind |-> "grace", player |-> id, turn |-> 0]}]],
           timeout |-> FALSE]

\* returns [r, timeout]; timeout tells whether onTimeout was called at once
handleDisconnect(r, id) ==
  IF id \notin DOMAIN r.players THEN [r |-> r, timeout |-> FALSE]
  ELSE LET g1 == setConnected(r.game, id, FALSE) IN
       IF g1.phase = "playing"
       THEN LET held == ({r.players[p].reconnectTimer : p \in DOMAIN r.players}
                           \cup {g1.turnTimer}) \ {NoTimer}
                h == FreshHandle(g1.live, held)
            IN [r |-> [r EXCEPT !.players[id].reconnectTimer = h,
                                !.game = [g1 EXCEPT !.live = g1.live \cup
                                   {[h |-> h, kind |-> "grace", player |-> id, turn |-> 0]}]],
                timeout |-> FALSE]
       ELSE [r |-> roomRemovePlayer([r EXCEPT !.game = g1], id), timeout |-> TRUE]

isHost(r, id) == id = r.hostId

(***************************************************************************)
(* index.ts: the message handlers of one connection c.                     *)
(***************************************************************************)
\* a handler's try/catch keeps whatever the method changed before it threw
\* input: the placements of an accepted PLAY_TILES, << >> for anything else
Event(type, c, ok) == [type |-> type, conn |-> c, ok |-> ok, input |-> << >>]

\* getRoom(): the room of the handler's roomCode, if registered
RoomOf(c) == connRoomCode[c] # "" /\ connRoomCode[c] \in rooms

Reject(type, c) ==
  /\ lastEvent' = Event(type, c, FALSE)
  /\ UNCHANGED <<rooms, roomPlayers, hostId, board, players, currentPlayerIndex, tiles,
                 turnHistory, phase, consecutivePasses, isFirstMove, turnTimer,
                 liveTimers, connPlayerId, connRoomCode, connOpen, starts, ends>>

\* the outcome res = [g, error] of a Game method, as the handler leaves it
Respond(type, c, res) ==
  /\ SetGame(res.g)
  /\ lastEvent' = Event(type, c, res.error = "none")

\* the same for playTiles, whose accepted placements are kept for inspection
RespondPlay(c, placements, res) ==
  /\ SetGame(res.g)
  /\ lastEvent' = [Event("PLAY_TILES", c, res.error = "none") EXCEPT
                     !.input = IF res.error = "none" THEN placements ELSE << >>]

\* the same for exchangeTiles, whose list of tile ids is kept for inspection
RespondExchange(c, tileIds, res) ==
  /\ SetGame(res.g)
  /\ lastEvent' = [Event("EXCHANGE_TILES", c, res.error = "none") EXCEPT !.input = tileIds]

\* CREATE_ROOM: randomUUID() is the connection's own number
CreateRoom(c) ==
  /\ connOpen[c]
  /\ LET r == roomAddPlayer(R, c, c) IN
     /\ rooms' = rooms \cup {ROOM}
     /\ SetRoom(r)
     /\ connPlayerId' = [connPlayerId EXCEPT ![c] = c]
     /\ connRoomCode' = [connRoomCode EXCEPT ![c] = ROOM]
     /\ lastEvent' = Event("CREATE_ROOM", c, r.error = "none")
  /\ UNCHANGED <<connOpen, starts>>

\* variant: the handler admits a fifth participant to the room
JoinRoom_noCap(c) ==
  /\ connOpen[c]
  /\ IF ROOM \notin rooms \/ phase # "waiting"
     THEN Reject("JOIN_ROOM", c)
     ELSE LET r == roomAddPlayer(R, c, c) IN
          /\ SetRoom(r)
          /\ connPlayerId' = [connPlayerId EXCEPT ![c] = c]
          /\ connRoomCode' = [connRoomCode EXCEPT ![c] = ROOM]
          /\ lastEvent' = Event("JOIN_ROOM", c, r.error = "none")
          /\ UNCHANGED <<rooms, connOpen, starts>>

JoinRoom(c) ==
  /\ connOpen[c]
  /\ IF ROOM \notin rooms \/ phase # "waiting" \/ Cardinality(DOMAIN roomPlayers) >= 4
     THEN Reject("JOIN_ROOM", c)
     ELSE LET r == roomAddPlayer(R, c, c) IN
          /\ SetRoom(r)
          /\ connPlayerId' = [connPlayerId EXCEPT ![c] = c]
          /\ connRoomCode' = [connRoomCode EXCEPT ![c] = ROOM]
          /\ lastEvent' = Event("JOIN_ROOM", c, r.error = "none")
          /\ UNCHANGED <<rooms, connOpen, starts>>

StartGame(c) ==
  /\ connOpen[c]
  /\ IF ~RoomOf(c) \/ ~isHost(R, connPlayerId[c])
     THEN Reject("START_GAME", c)
     ELSE /\ Respond("START_GAME", c, start(G))
          /\ starts' = IF Len(players) < 2 THEN starts ELSE starts + 1
          /\ UNCHANGED <<rooms, roomPlayers, hostId, connPlayerId, connRoomCode, connOpen>>

PlayTiles(c, placements) ==
  /\ connOpen[c]
  /\ IF ~RoomOf(c)
     THEN Reject("PLAY_TILES", c)
     ELSE /\ RespondPlay(c, placements, playTiles(G, connPlayerId[c], placements))
          /\ UNCHANGED <<rooms, roomPlayers, hostId, connPlayerId, connRoomCode, connOpen, starts>>

ExchangeTiles(c, tileIds, sh) ==
  /\ connOpen[c]
  /\ IF ~RoomOf(c)
     THEN Reject("EXCHANGE_TILES", c)
     ELSE /\ RespondExchange(c, tileIds, exchangeTiles(G, connPlayerId[c], tileIds, sh))
          /\ UNCHANGED <<rooms, roomPlayers, hostId, connPlayerId, connRoomCode, connOpen, starts>>

Pass(c) ==
  /\ connOpen[c]
  /\ IF ~RoomOf(c)
     THEN Reject("PASS", c)
     ELSE /\ Respond("PASS", c, pass(G, connPlayerId[c]))
          /\ UNCHANGED <<rooms, roomPlayers, hostId, connPlayerId, connRoomCode, connOpen, starts>>

\* the callback of the setTimeout in startTurnTimer
TurnTimeout(t) ==
  /\ t \in liveTimers
  /\ t.kind = "turn"
  /\ \E g \in {[G EXCEPT !.live = liveTimers \ {t}]} :
       \E after \in {IF phase = "playing" THEN forcePass(g) ELSE g} : SetGame(after)
  /\ lastEvent' = Event("TURN_TIMEOUT", 0, phase = "playing")
  /\ UNCHANGED <<rooms, roomPlayers, hostId, connPlayerId, connRoomCode, connOpen, starts>>

\* the onTimeout callback of the close handler
\* variant: the callback leaves an empty room in the registry
onTimeout_keepRoom(r) == rooms

onTimeout(r) == IF DOMAIN r.players = {} THEN rooms \ {ROOM} ELSE rooms

\* ws.on('close')
Close(c) ==
  /\ connOpen[c]
  /\ connOpen' = [connOpen EXCEPT ![c] = FALSE]
  /\ IF connRoomCode[c] = "" \/ connPlayerId[c] = NoPlayer \/ ~RoomOf(c)
     THEN /\ lastEvent' = Event("close", c, FALSE)
          /\ UNCHANGED <<rooms, roomPlayers, hostId, gameVars, liveTimers, ends>>
     ELSE LET d == handleDisconnect(R, connPlayerId[c]) IN
          /\ SetRoom(d.r)
          /\ rooms' = IF d.timeout THEN onTimeout(d.r) ELSE rooms
          /\ lastEvent' = Event("close", c, TRUE)
  /\ UNCHANGED <<connPlayerId, connRoomCode, starts>>

\* RECONNECT with msg.roomCode = ROOM and msg.playerId = pid
Reconnect(c, pid) ==
  /\ connOpen[c]
  /\ IF ROOM \notin rooms \/ ~reconnectPlayer(R, pid, c).ok
     THEN Reject("RECONNECT", c)
     ELSE /\ SetRoom(reconnectPlayer(R, pid, c).r)
          /\ connPlayerId' = [connPlayerId EXCEPT ![c] = pid]
          /\ connRoomCode' = [connRoomCode EXCEPT ![c] = ROOM]
          /\ lastEvent' = Event("RECONNECT", c, TRUE)
          /\ UNCHANGED <<rooms, connOpen, starts>>

\* the callback of the setTimeout in handleDisconnect
GraceTimeout(t) ==
  /\ t \in liveTimers
  /\ t.kind = "grace"
  /\ LET r == roomRemovePlayer([R EXCEPT !.game.live = liveTimers \ {t}], t.player) IN
     /\ SetRoom(r)
     /\ rooms' = onTimeout(r)
  /\ lastEvent' = Event("GRACE_TIMEOUT", 0, TRUE)
  /\ UNCHANGED <<connPlayerId, connRoomCode, connOpen, starts>>

(***************************************************************************)
(* What clients send.  t1 and t2 are the first two tiles of the sender's   *)
(* rack; NumTiles is the id of no tile.                                    *)
(***************************************************************************)
RackOf(pid) ==
  LET is == {i \in 1 .. Len(players) : players[i].id = pid}
  IN IF is = {} THEN << >> ELSE players[Min(is)].rack

Placement(tileId, row, col, ch) ==
  [tileId |-> tileId, row |-> row, col |-> col, assignedChar |-> ch]

PlacementInputs(c) ==
  LET rack == RackOf(connPlayerId[c])
      t1 == IF Len(rack) >= 1 THEN rack[1].id ELSE NumTiles
      t2 == IF Len(rack) >= 2 THEN rack[2].id ELSE NumTiles
  IN SeqsUpTo({ Placement(t1, 7, 7, ""), Placement(t1, 7, 8, ""),
                Placement(t2, 7, 8, "a"), Placement(t1, 8, 8, ""),
                Placement(t2, 8, 8, "a"), Placement(t1, 7, 10, ""),
                Placement(NumTiles, 7, 9, ""), Placement(t2, 7, 15, "a") },
              MaxListLen)

TileIdInputs(c) ==
  LET rack == RackOf(connPlayerId[c])
      t1 == IF Len(rack) >= 1 THEN rack[1].id ELSE NumTiles
  IN SeqsUpTo({t1, NumTiles}, MaxListLen)

Moves == Cardinality({i \in 1 .. Len(turnHistory) : turnHistory[i].action # "pass"})
Joined(c) == connPlayerId[c] # NoPlayer
\* connections introduce themselves in the order of their numbers
NextToJoin(c) == ~Joined(c) /\ \A d \in Sockets : d < c => Joined(d)

Init ==
  /\ rooms = {}
  /\ roomPlayers = << >>
  /\ hostId = NoPlayer
  /\ board = << >>
  /\ players = << >>
  /\ currentPlayerIndex = 0
  /\ tiles \in {shuffle(InitTiles, sh) : sh \in ShuffleOutcomes}
  /\ turnHistory = << >>
  /\ phase = "waiting"
  /\ consecutivePasses = 0
  /\ isFirstMove = TRUE
  /\ turnTimer = NoTimer
  /\ liveTimers = {}
  /\ connPlayerId = [c \in Sockets |-> NoPlayer]
  /\ connRoomCode = [c \in Sockets |-> ""]
  /\ connOpen = [c \in Sockets |-> TRUE]
  /\ lastEvent = Event("none", 0, TRUE)
  /\ starts = 0
  /\ ends = 0

Next ==
  \/ \E c \in Conns : NextToJoin(c) /\ rooms = {} /\ CreateRoom(c)
  \/ \E c \in Conns : NextToJoin(c) /\ rooms # {} /\ JoinRoom(c)
  \/ \E c \in Conns : Joined(c) /\ starts < MaxStarts /\ StartGame(c)
  \/ \E c \in Conns : Joined(c) /\ Len(turnHistory) < MaxTurns /\ Moves < MaxMoves
        /\ \E placements \in PlacementInputs(c) : PlayTiles(c, placements)
  \/ \E c \in Conns : Joined(c) /\ Len(turnHistory) < MaxTurns /\ Moves < MaxMoves
        /\ \E tileIds \in TileIdInputs(c), sh \in ShuffleOutcomes : ExchangeTiles(c, tileIds, sh)
  \/ \E c \in Conns : Joined(c) /\ Len(turnHistory) < MaxTurns /\ Pass(c)
  \/ \E t \in liveTimers : Len(turnHistory) < MaxTurns /\ TurnTimeout(t)

Spec == Init /\ [][Next]_vars

(***************************************************************************)
(* The same server with connections that close and reconnect.  Plays put   *)
(* one tile, exchanges return one.                                         *)
(***************************************************************************)
NextRoom ==
  \/ \E c \in Conns : NextToJoin(c) /\ hostId = NoPlayer /\ CreateRoom(c)
  \/ \E c \in Conns : NextToJoin(c) /\ hostId # NoPlayer /\ JoinRoom(c)
  \/ \E c \in Conns : Joined(c) /\ starts < MaxStarts /\ StartGame(c)
  \/ \E c \in Conns : Joined(c) /\ Len(turnHistory) < RoomMaxTurns
        /\ \E placements \in PlacementInputs(c) : Len(placements) = 1 /\ PlayTiles(c, placements)
  \/ \E c \in Conns : Joined(c) /\ Len(turnHistory) < RoomMaxTurns
        /\ \E tileIds \in TileIdInputs(c) : Len(tileIds) = 1 /\ ExchangeTiles(c, tileIds, "riffle")
  \/ \E c \in Conns : Joined(c) /\ Len(turnHistory) < RoomMaxTurns /\ Pass(c)
  \/ \E t \in liveTimers : Len(turnHistory) < RoomMaxTurns /\ TurnTimeout(t)
  \/ \E c \in Conns : Close(c)
  \/ \E c \in Conns, pid \in Conns : ~Joined(c) /\ Reconnect(c, pid)
  \/ \E t \in liveTimers : GraceTimeout(t)

SpecRoom == Init /\ [][NextRoom]_vars

(***************************************************************************)
(* The same server with clients that lay whole racks: the sender's rack in *)
(* rack order on row 7 or row 8 from column 4 on, the same with the first  *)
(* tile named again in place of the seventh, and the first tile alone on   *)
(* (7,3).  A blank is sent with the character "a".                         *)
(***************************************************************************)
RackId(c, i) ==
  LET rack == RackOf(connPlayerId[c]) IN IF i <= Len(rack) THEN rack[i].id ELSE NumTiles

CharFor(id) == IF id \in TileIds /\ isBlank(MakeTile(id)) THEN "a" ELSE ""

RowPlay(c, row, ks) ==
  [j \in 1 .. Len(ks) |-> Placement(RackId(c, ks[j]), row, 3 + j, CharFor(RackId(c, ks[j])))]

PlayInputs(c) ==
  { RowPlay(c, 7, <<1, 2, 3, 4, 5, 6, 7>>),
    RowPlay(c, 8, <<1, 2, 3, 4, 5, 6, 7>>),
    RowPlay(c, 7, <<1, 2, 3, 4, 5, 6, 1>>),
    RowPlay(c, 7, <<1, 2, 3, 4>>),
    <<Placement(RackId(c, 1), 7, 3, CharFor(RackId(c, 1)))>> }

NextPlay ==
  \/ \E c \in Conns : NextToJoin(c) /\ rooms = {} /\ CreateRoom(c)
  \/ \E c \in Conns : NextToJoin(c) /\ rooms # {} /\ JoinRoom(c)
  \/ \E c \in Conns : Joined(c) /\ starts < MaxStarts /\ StartGame(c)
  \/ \E c \in Conns : Joined(c) /\ Len(turnHistory) < PlayMaxTurns
        /\ \E placements \in PlayInputs(c) : PlayTiles(c, placements)
  \/ \E c \in Conns : Joined(c) /\ Len(turnHistory) < PlayMaxTurns /\ Pass(c)
  \/ \E t \in liveTimers : Len(turnHistory) < PlayMaxTurns /\ TurnTimeout(t)

SpecPlay == Init /\ [][NextPlay]_vars

(***************************************************************************)
(* The same server with clients that only pass, drop their connection and  *)
(* reconnect: RECONNECT may come from any open connection and name any     *)
(* participant, also one whose earlier connection is still open.           *)
(***************************************************************************)
NextRejoin ==
  \/ \E c \in Conns : NextToJoin(c) /\ hostId = NoPlayer /\ CreateRoom(c)
  \/ \E c \in Conns : NextToJoin(c) /\ hostId # NoPlayer /\ JoinRoom(c)
  \/ \E c \in Conns : Joined(c) /\ starts = 0 /\ StartGame(c)
  \/ \E c \in Conns : Joined(c) /\ Len(turnHistory) < RejoinMaxTurns /\ Pass(c)
  \/ \E t \in liveTimers : Len(turnHistory) < RejoinMaxTurns /\ TurnTimeout(t)
  \/ \E c \in Conns : Close(c)
  \/ \E c \in Conns, pid \in Conns : Reconnect(c, pid)
  \/ \E t \in liveTimers : GraceTimeout(t)

SpecRejoin == Init /\ [][NextRejoin]_vars

(***************************************************************************)
(* The same server with more connections than a room admits: each of them  *)
(* asks to join, before and after the start, and may drop; the game is     *)
(* passed to its end.                                                      *)
(***************************************************************************)
NextJoin ==
  \/ \E c \in Sockets : NextToJoin(c) /\ hostId = NoPlayer /\ CreateRoom(c)
  \/ \E c \in Sockets : NextToJoin(c) /\ hostId # NoPlayer /\ JoinRoom(c)
  \/ \E c \in Sockets : Joined(c) /\ starts = 0 /\ StartGame(c)
  \/ \E c \in Sockets : Joined(c) /\ Len(turnHistory) < JoinMaxTurns /\ Pass(c)
  \/ \E c \in Sockets : Close(c)

SpecJoin == Init /\ [][NextJoin]_vars


(***************************************************************************)
(* The same server with clients that only exchange and pass: the first     *)
(* tile of the rack, that tile named twice, or the last tile of the rack.  *)
(***************************************************************************)
SwapInputs(c) ==
  LET rack == RackOf(connPlayerId[c]) IN
  IF rack = << >> THEN {<<NumTiles>>}
  ELSE {<<rack[1].id>>, <<rack[1].id, rack[1].id>>, <<rack[Len(rack)].id>>}

NextSwap ==
  \/ \E c \in Conns : NextToJoin(c) /\ rooms = {} /\ CreateRoom(c)
  \/ \E c \in Conns : NextToJoin(c) /\ rooms # {} /\ JoinRoom(c)
  \/ \E c \in Conns : Joined(c) /\ starts = 0 /\ StartGame(c)
  \/ \E c \in Conns : Joined(c) /\ Len(turnHistory) < SwapMaxTurns
        /\ \E tileIds \in SwapInputs(c), sh \in ShuffleOutcomes : ExchangeTiles(c, tileIds, sh)
  \/ \E c \in Conns : Joined(c) /\ Len(turnHistory) < SwapMaxTurns /\ Pass(c)

SpecSwap == Init /\ [][NextSwap]_vars

(***************************************************************************)
(* The same server with clients that lay the first two tiles of their rack *)
(* side by side: through the center, beside or below tiles laid before,    *)
(* apart from them, or with an empty cell between the two.                 *)
(***************************************************************************)
PairPlay(c, row1, col1, row2, col2) ==
  <<Placement(RackId(c, 1), row1, col1, CharFor(RackId(c, 1))),
    Placement(RackId(c, 2), row2, col2, CharFor(RackId(c, 2)))>>

BoardInputs(c) ==
  { PairPlay(c, 7, 7, 7, 8), PairPlay(c, 8, 8, 9, 8), PairPlay(c, 7, 9, 7, 10),
    PairPlay(c, 7, 10, 7, 11), PairPlay(c, 9, 10, 10, 10), PairPlay(c, 7, 9, 7, 11),
    PairPlay(c, 6, 7, 8, 7) }

NextBoard ==
  \/ \E c \in Conns : NextToJoin(c) /\ rooms = {} /\ CreateRoom(c)
  \/ \E c \in Conns : NextToJoin(c) /\ rooms # {} /\ JoinRoom(c)
  \/ \E c \in Conns : Joined(c) /\ starts = 0 /\ StartGame(c)
  \/ \E c \in Conns : Joined(c) /\ Len(turnHistory) < BoardMaxTurns
        /\ \E placements \in BoardInputs(c) : PlayTiles(c, placements)
  \/ \E c \in Conns : Joined(c) /\ Len(turnHistory) < BoardMaxTurns /\ Pass(c)

SpecBoard == Init /\ [][NextBoard]_vars

(***************************************************************************)
(* The same server with clients that join, start one game and then send    *)
(* nothing more: they may drop, and the timers run.  A pending deadline    *)
(* fires eventually.                                                       *)
(***************************************************************************)
NextDeadline ==
  \/ \E c \in 1 .. DeadlineConns : NextToJoin(c) /\ hostId = NoPlayer /\ CreateRoom(c)
  \/ \E c \in 1 .. DeadlineConns : NextToJoin(c) /\ hostId # NoPlayer /\ JoinRoom(c)
  \/ \E c \in 1 .. DeadlineConns : Joined(c) /\ starts = 0 /\ StartGame(c)
  \/ \E t \in liveTimers : TurnTimeout(t)
  \/ \E c \in 1 .. DeadlineConns : Close(c)
  \/ \E t \in liveTimers : GraceTimeout(t)

SpecDeadline ==
  Init /\ [][NextDeadline]_vars /\ WF_vars(\E t \in liveTimers : TurnTimeout(t))

(***************************************************************************)
(* Observations used by the properties.                                    *)
(***************************************************************************)
Racks == [i \in 1 .. Len(players) |-> players[i].rack]
Scores == [i \in 1 .. Len(players) |-> players[i].score]
TurnTimers == {t \in liveTimers : t.kind = "turn"}
\* how often tile id occurs in the pool, in the racks and on the board
Occurrences(id) ==
  Cardinality({i \in 1 .. Len(tiles) : tiles[i].id = id})
  + SumSeq([i \in 1 .. Len(players) |->
              Cardinality({j \in 1 .. Len(players[i].rack) : players[i].rack[j].id = id})])
  + Cardinality({cell \in DOMAIN board : board[cell].id = id})
TilesInPlay ==
  Len(tiles) + SumSeq([i \in 1 .. Len(players) |-> Len(players[i].rack)])
  + Cardinality(DOMAIN board)
\* the participant behind the last event, and whether the turn is theirs
Requester == IF lastEvent.conn \in Sockets THEN connPlayerId[lastEvent.conn] ELSE NoPlayer
HoldsTurn(pid) == phase = "playing" /\ pid # NoPlayer /\ currentPlayerId(G) = pid
TrailingPasses(n) ==
  Len(turnHistory) >= n
  /\ \A i \in Len(turnHistory) - n + 1 .. Len(turnHistory) : turnHistory[i].action = "pass"
EndConditionB == Len(tiles) = 0 /\ \E i \in 1 .. Len(players) : Len(players[i].rack) = 0

(***************************************************************************)
(* C1.  Pool conservation: in every reachable state the tiles in the pool, *)
(* in all racks and on the board add up to the initial number of tiles.    *)
(***************************************************************************)
C1_PoolConservation == TilesInPlay = NumTiles

(***************************************************************************)
(* C2.  Unique tile ownership: every tile identity occurs exactly once     *)
(* among the pool, the racks and the board cells.                          *)
(***************************************************************************)
C2_UniqueOwnership == \A id \in TileIds : Occurrences(id) = 1

(***************************************************************************)
(* C3.  Validate-then-commit: a rejected PLAY_TILES or EXCHANGE_TILES      *)
(* leaves board, racks, pool, scores, turn index, pass counter, first-move *)
(* flag, history and the armed deadline as they were, and if the rejected  *)
(* sender holds the turn, a pass by them is accepted right after.          *)
(***************************************************************************)
C3_ValidateThenCommit ==
  [][(lastEvent'.type \in {"PLAY_TILES", "EXCHANGE_TILES"} /\ ~lastEvent'.ok)
       => /\ UNCHANGED <<board, players, tiles, currentPlayerIndex, consecutivePasses,
                         isFirstMove, turnHistory, phase, turnTimer, liveTimers>>
          /\ (HoldsTurn(connPlayerId[lastEvent'.conn])
                => pass(G', connPlayerId[lastEvent'.conn]).error = "none")]_vars

\* a play of the turn-holder was rejected in the middle of a game
C3_Witness ==
  /\ lastEvent.type = "PLAY_TILES" /\ ~lastEvent.ok
  /\ HoldsTurn(Requester)
  /\ turnHistory # << >>

(***************************************************************************)
(* C4.  Turn ownership: a play, exchange or pass sent by anyone but the    *)
(* current turn-holder, or while the phase is not playing, is rejected and *)
(* changes nothing of the game or the room.                                *)
(***************************************************************************)
C4_TurnOwnership ==
  [][(lastEvent'.type \in {"PLAY_TILES", "EXCHANGE_TILES", "PASS"}
        /\ ~HoldsTurn(connPlayerId[lastEvent'.conn]))
       => /\ ~lastEvent'.ok
          /\ UNCHANGED <<gameVars, liveTimers, roomVars>>]_vars

\* a seated participant passed out of turn during a game
C4_Witness ==
  /\ lastEvent.type = "PASS" /\ ~lastEvent.ok
  /\ phase = "playing"
  /\ \E i \in 1 .. Len(players) : players[i].id = Requester
  /\ ~HoldsTurn(Requester)

(***************************************************************************)
(* C5.  Finished is terminal: once the phase is finished no event changes  *)
(* the phase, the board, a rack, the pool, a score, the turn index or the  *)
(* turn history.                                                           *)
(***************************************************************************)
C5_FinishedIsTerminal ==
  [][phase = "finished"
       => /\ UNCHANGED <<phase, board, tiles, currentPlayerIndex, turnHistory>>
          /\ Racks' = Racks /\ Scores' = Scores]_vars

(***************************************************************************)
(* C6.  START_GAME takes effect only for the room's creator, in waiting,   *)
(* with at least 2 participants; otherwise it fails and leaves phase,      *)
(* racks, pool and turn state unchanged, so racks are dealt at most once.  *)
(***************************************************************************)
C6_StartOnlyFromWaiting ==
  [][(lastEvent'.type = "START_GAME"
        /\ ~(isHost(R, connPlayerId[lastEvent'.conn]) /\ phase = "waiting"
             /\ Len(players) >= 2))
       => /\ ~lastEvent'.ok
          /\ UNCHANGED <<phase, players, tiles, currentPlayerIndex, consecutivePasses,
                         turnTimer, liveTimers, starts>>]_vars

(***************************************************************************)
(* C7.  Right after an accepted start the phase is playing, every rack     *)
(* holds RACK_SIZE tiles, the pool has shrunk by RACK_SIZE per             *)
(* participant, the first participant holds the turn and exactly one turn  *)
(* deadline is armed.                                                      *)
(***************************************************************************)
C7_AfterStart ==
  [][(lastEvent'.type = "START_GAME" /\ lastEvent'.ok)
       => /\ phase' = "playing"
          /\ \A i \in 1 .. Len(players') : Len(players'[i].rack) = RACK_SIZE
          /\ Len(tiles') = Len(tiles) - RACK_SIZE * Len(players')
          /\ currentPlayerIndex' = 0
          /\ Cardinality(TurnTimers') = 1]_vars

(***************************************************************************)
(* C8.  At most one mutation per turn: every turn record advanced the turn *)
(* by exactly one seat, the participant of the last record no longer holds *)
(* the turn (a late action of theirs is out of turn), and a live deadline  *)
(* is always the one armed for the current turn, so no deadline armed for  *)
(* an earlier turn can force a pass.                                       *)
(***************************************************************************)
C8_AtMostOncePerTurn ==
  /\ \A t \in TurnTimers : t.turn = Len(turnHistory) /\ phase = "playing"
  /\ phase # "waiting" => currentPlayerIndex = Len(turnHistory) % Len(players)
  /\ (phase = "playing" /\ turnHistory # << >>)
       => ~HoldsTurn(turnHistory[Len(turnHistory)].playerId)

\* a deadline expired on a turn that follows a committed play
C8_Witness ==
  /\ lastEvent.type = "TURN_TIMEOUT" /\ lastEvent.ok
  /\ phase = "playing"
  /\ Len(turnHistory) >= 2
  /\ turnHistory[Len(turnHistory) - 1].action = "play"

(***************************************************************************)
(* C9.  A session never has two live turn deadlines, and the live one is   *)
(* the one Game.turnTimer refers to.                                       *)
(***************************************************************************)
C9_OneLiveDeadline ==
  /\ Cardinality(TurnTimers) <= 1
  /\ \A t \in TurnTimers : t.h = turnTimer

\* a deadline is live that was armed when an earlier one was live
C9_Witness ==
  /\ Cardinality(TurnTimers) = 1
  /\ Len(turnHistory) >= 2
  /\ starts >= 2

(***************************************************************************)
(* C10.  End condition A: with N participants the session is finished      *)
(* exactly when the pass counter has reached 2N; a game that ended with    *)
(* tiles left to draw ended after 2N passes in a row; a play restarts the   *)
(* count.                                                                  *)
(***************************************************************************)
C10_EndConditionA ==
  /\ phase = "playing" => consecutivePasses < 2 * Len(players)
  /\ (phase = "finished" /\ ~EndConditionB)
       => consecutivePasses = 2 * Len(players) /\ TrailingPasses(2 * Len(players))
  /\ (turnHistory # << >> /\ turnHistory[Len(turnHistory)].action = "play")
       => consecutivePasses = 0

\* the last event was an accepted play
PlayAccepted == lastEvent.type = "PLAY_TILES" /\ lastEvent.ok
\* the seat of the participant of the last turn record
LastActor ==
  CHOOSE i \in 1 .. Len(players) : players[i].id = turnHistory[Len(turnHistory)].playerId

(***************************************************************************)
(* C11.  End condition B: an accepted play that leaves the rack of the     *)
(* participant who played empty while the pool is empty finishes the game  *)
(* in the same call, the rack still empty; and a game never goes from      *)
(* playing to finished with tiles left in the pool unless the pass counter *)
(* has reached twice the number of participants.                           *)
(***************************************************************************)
C11_EndConditionB ==
  [][/\ (PlayAccepted' /\ Len(tiles') = 0 /\ Len(Racks'[currentPlayerIndex + 1]) = 0)
          => phase' = "finished"
     /\ (phase = "playing" /\ phase' = "finished" /\ Len(tiles') > 0)
          => /\ consecutivePasses' >= 2 * Len(players)
             /\ lastEvent'.type \in {"PASS", "TURN_TIMEOUT"}]_vars

\* a participant has gone out: their play emptied their rack with no tile left to draw
C11_Witness ==
  /\ PlayAccepted
  /\ phase = "finished"
  /\ Len(tiles) = 0
  /\ Len(Racks[LastActor]) = 0
  /\ \E i \in 1 .. Len(players) : Len(Racks[i]) = RACK_SIZE

\* the phase becomes finished in this step
GameEnds == phase # "finished" /\ phase' = "finished"
\* what the step's accepted play, if any, adds to the score of seat i
PlayGain(i) ==
  IF PlayAccepted' /\ i = currentPlayerIndex + 1
  THEN turnHistory'[Len(turnHistory')].totalScore ELSE 0

(***************************************************************************)
(* C12.  Final adjustment: in the step that finishes the game every score  *)
(* goes down by exactly the base points of the tiles left in that          *)
(* participant's rack (blanks count zero); the game finishes at most once, *)
(* so the adjustment is applied once, and in no other step does a score go *)
(* down.                                                                   *)
(***************************************************************************)
C12_FinalAdjustment ==
  [][/\ GameEnds => \A i \in 1 .. Len(players) :
                      Scores'[i] = Scores[i] + PlayGain(i) - rackPoints(Racks'[i])
     /\ ends' <= 1
     /\ ~GameEnds => \A i \in 1 .. Len(players) : Scores'[i] >= Scores[i]]_vars

\* this step is a deadline expiry that takes effect as a pass
ForcedPass ==
  /\ lastEvent'.type = "TURN_TIMEOUT"
  /\ \/ turnHistory' # turnHistory
     \/ consecutivePasses' # consecutivePasses
     \/ currentPlayerIndex' # currentPlayerIndex

(***************************************************************************)
(* C13.  Whenever the phase is finished no turn deadline is live, and once *)
(* the session has finished no deadline expiry ever takes effect again: no *)
(* pass record, no change of the pass counter, no turn advance.            *)
(***************************************************************************)
C13_NoForcedPassAfterFinish ==
  [][/\ phase' = "finished" => TurnTimers' = {}
     /\ ends >= 1 => ~ForcedPass]_vars

\* the last event was an accepted exchange
ExchangeAccepted == lastEvent.type = "EXCHANGE_TILES" /\ lastEvent.ok
\* an accepted exchange appends its zero-score record and moves the turn on by one seat
ExchangeRecorded ==
  /\ turnHistory' = Append(turnHistory,
        [playerId |-> connPlayerId[lastEvent'.conn], action |-> "exchange", totalScore |-> 0])
  /\ currentPlayerIndex' = (currentPlayerIndex + 1) % Len(players)

(***************************************************************************)
(* C14.  As stated: an accepted exchange leaves the pass counter at the    *)
(* value it had before, appends one zero-score exchange record and         *)
(* advances the turn.                                                      *)
(***************************************************************************)
C14_ExchangeKeepsStreak ==
  [][ExchangeAccepted' => consecutivePasses' = consecutivePasses /\ ExchangeRecorded]_vars

(***************************************************************************)
(* C14, amended.  An accepted exchange clears the pass counter to zero,    *)
(* appends one zero-score exchange record and advances the turn.           *)
(***************************************************************************)
C14_ExchangeClearsStreak ==
  [][ExchangeAccepted' => consecutivePasses' = 0 /\ ExchangeRecorded]_vars

\* an exchange was accepted right after a pass
C14_Witness ==
  /\ ExchangeAccepted
  /\ Len(turnHistory) >= 2
  /\ turnHistory[Len(turnHistory) - 1].action = "pass"
  /\ turnHistory[Len(turnHistory)].action = "exchange"
  /\ phase = "playing"

\* tile id is among the tiles of a rack or of the pool
Holds(seq, id) == \E j \in 1 .. Len(seq) : seq[j].id = id
\* this step handles an exchange sent by the turn-holder
ExchangeByTurnHolder ==
  lastEvent'.type = "EXCHANGE_TILES" /\ HoldsTurn(connPlayerId[lastEvent'.conn])

(***************************************************************************)
(* C15.  Exchange is all-or-nothing: an exchange of k tiles by the         *)
(* turn-holder is rejected, pool and racks unchanged, when k = 0, when a   *)
(* named tile is not in their rack or when the pool holds fewer than k     *)
(* tiles; when it is accepted the pool size and the size of their rack are *)
(* unchanged, every named tile is in the pool and none is in the rack.     *)
(***************************************************************************)
C15_ExchangeAllOrNothing ==
  [][ExchangeByTurnHolder =>
       LET ids == lastEvent'.input
           a == currentPlayerIndex + 1
       IN /\ (\/ Len(ids) = 0
              \/ \E i \in 1 .. Len(ids) : ~Holds(Racks[a], ids[i])
              \/ Len(tiles) < Len(ids))
               => ~lastEvent'.ok /\ tiles' = tiles /\ Racks' = Racks
          /\ lastEvent'.ok
               => /\ Len(tiles') = Len(tiles)
                  /\ Len(Racks'[a]) = Len(Racks[a])
                  /\ \A i \in 1 .. Len(ids) :
                        Holds(tiles', ids[i]) /\ ~Holds(Racks'[a], ids[i])]_vars

(***************************************************************************)
(* C16.  Rack capacity: in every reachable state every rack holds at most  *)
(* RACK_SIZE tiles, whatever lists of tile ids the intents carry.          *)
(***************************************************************************)
C16_RackCapacity == \A i \in 1 .. Len(players) : Len(Racks[i]) <= RACK_SIZE

(***************************************************************************)
(* The score of a play as the scoring rule states it, read off the board   *)
(* before (b0) and after (b1) the play.  A word is a maximal straight run  *)
(* of two or more occupied cells of b1 that covers a cell newly occupied.  *)
(***************************************************************************)
NewCells(b0, b1) == DOMAIN b1 \ DOMAIN b0
RunCell(run, k) == IF run.across THEN <<run.line, k>> ELSE <<k, run.line>>
\* the maximal run of occupied cells of b1 through cell, across or down
RunThrough(across, cell, b1) ==
  LET line == IF across THEN cell[1] ELSE cell[2]
      pos == IF across THEN cell[2] ELSE cell[1]
      At(k) == IF across THEN <<line, k>> ELSE <<k, line>>
  IN [across |-> across, line |-> line,
      from |-> CHOOSE f \in 0 .. pos :
                 /\ \A k \in f .. pos : At(k) \in DOMAIN b1
                 /\ At(f - 1) \notin DOMAIN b1,
      to |-> CHOOSE t \in pos .. BOARD_SIZE - 1 :
               /\ \A k \in pos .. t : At(k) \in DOMAIN b1
               /\ At(t + 1) \notin DOMAIN b1]
WordRuns(b0, b1) ==
  {run \in {RunThrough(across, cell, b1) : across \in BOOLEAN, cell \in NewCells(b0, b1)} :
     run.from < run.to}
RuleFace(cell, b1) == IF baseChar(b1[cell]) = "" THEN 0 ELSE basePoints(b1[cell])
RuleLetter(cell, b0, b1) ==
  IF cell \in DOMAIN b0 THEN RuleFace(cell, b1)
  ELSE IF bonusLayout[cell] = "DL" THEN 2 * RuleFace(cell, b1)
  ELSE IF bonusLayout[cell] = "TL" THEN 3 * RuleFace(cell, b1)
  ELSE RuleFace(cell, b1)
RuleWordMultiplier(cell, b0) ==
  IF cell \in DOMAIN b0 THEN 1
  ELSE IF bonusLayout[cell] \in {"DW", "START"} THEN 2
  ELSE IF bonusLayout[cell] = "TW" THEN 3
  ELSE 1
RuleWord(run, b0, b1) ==
  SumSeq([k \in 1 .. run.to - run.from + 1 |->
            RuleLetter(RunCell(run, run.from + k - 1), b0, b1)])
    * ProdSeq([k \in 1 .. run.to - run.from + 1 |->
                 RuleWordMultiplier(RunCell(run, run.from + k - 1), b0)])
RECURSIVE RuleTotal(_, _, _)
RuleTotal(runs, b0, b1) ==
  IF runs = {} THEN 0
  ELSE RuleWord(CHOOSE run \in runs : TRUE, b0, b1)
         + RuleTotal(runs \ {CHOOSE run \in runs : TRUE}, b0, b1)
\* the score recorded for the play accepted in this step
RecordedScore == turnHistory'[Len(turnHistory')].totalScore

Laid(r, c) ==
  \E i \in 1 .. Len(lastEvent.input) : lastEvent.input[i].row = r /\ lastEvent.input[i].col = c

StackCell == <<lastEvent'.input[1].row, lastEvent'.input[1].col>>
StackRun == CHOOSE run \in WordRuns(board, board') : TRUE
StackOthers == {RunCell(StackRun, k) : k \in StackRun.from .. StackRun.to} \ {StackCell}
StackingCase ==
  /\ PlayAccepted' /\ Len(lastEvent'.input) = 1
  /\ Cardinality(WordRuns(board, board')) = 1
  /\ bonusLayout[StackCell] = "DL" /\ RuleFace(StackCell, board') = 2
  /\ StackOthers \subseteq DOMAIN board
  /\ \A cell \in StackOthers : bonusLayout[cell] \in {"NONE", "DW", "START"}
  /\ \E cell \in StackOthers : bonusLayout[cell] \in {"DW", "START"}
\* the face values of the word's older tiles
StackOthersRaw ==
  SumSeq([k \in 1 .. StackRun.to - StackRun.from + 1 |->
            IF RunCell(StackRun, StackRun.from + k - 1) = StackCell THEN 0
            ELSE RuleFace(RunCell(StackRun, StackRun.from + k - 1), board')])

MovedToBoard ==
  {id \in TileIds :
     /\ Holds(Racks[currentPlayerIndex + 1], id)
     /\ \E cell \in NewCells(board, board') : board'[cell].id = id}

(***************************************************************************)
(* C19.  All-tiles bonus: the total of an accepted play holds BINGO_BONUS  *)
(* once on top of the words' scores if the play moved RACK_SIZE tiles from *)
(* the rack to the board, and no bonus otherwise.                          *)
(***************************************************************************)
C19_AllTilesBonus ==
  [][PlayAccepted' =>
       RecordedScore =
         RuleTotal(WordRuns(board, board'), board, board')
           + (IF Cardinality(MovedToBoard) = RACK_SIZE THEN BINGO_BONUS ELSE 0)]_vars

\* the accepted play of this step names exactly one tile
LoneTileAccepted == PlayAccepted' /\ Len(lastEvent'.input) = 1
\* the cell of a lone tile and whether it touches a tile of board b0
LoneCell == <<lastEvent'.input[1].row, lastEvent'.input[1].col>>
Touches(cell, b0) ==
  \E d \in {<<0, 1>>, <<0, -1>>, <<1, 0>>, <<-1, 0>>} :
    <<cell[1] + d[1], cell[2] + d[2]>> \in DOMAIN b0
\* the letters of a run, a blank reading as the character assigned to it
RunText(run, b1) ==
  [k \in 1 .. run.to - run.from + 1 |->
     LET tile == b1[RunCell(run, run.from + k - 1)] IN
     IF baseChar(tile) = "" /\ tile.assignedChar # "" THEN tile.assignedChar
     ELSE baseChar(tile)]

(***************************************************************************)
(* C20.  As stated: a play of exactly one tile is never accepted.          *)
(***************************************************************************)
C20_LoneTileRejected == ~(PlayAccepted /\ Len(lastEvent.input) = 1)

(***************************************************************************)
(* C20, amended.  A play of exactly one tile is never accepted on the      *)
(* first move; on a later move it is accepted only when the tile touches a *)
(* tile already on the board and every word it forms is in the dictionary. *)
(***************************************************************************)
C20_LoneTileLaterOnly ==
  [][LoneTileAccepted =>
       /\ ~isFirstMove
       /\ Touches(LoneCell, board)
       /\ WordRuns(board, board') # {}
       /\ \A run \in WordRuns(board, board') : isValid(RunText(run, board'))]_vars

\* a lone tile was accepted next to the tiles of the first move
C20_Witness ==
  /\ PlayAccepted /\ Len(lastEvent.input) = 1
  /\ ~isFirstMove
  /\ Len(turnHistory) >= 2
  /\ Cardinality(DOMAIN board) >= 3
  /\ turnHistory[Len(turnHistory)].totalScore > 0

\* the cells named by the placements of the play accepted in this step
PlayedCells ==
  {<<lastEvent'.input[i].row, lastEvent'.input[i].col>> : i \in 1 .. Len(lastEvent'.input)}

(***************************************************************************)
(* C21.  Anchor rule: a play accepted on the first move has a placement on *)
(* the center cell and names at least two tiles; a play accepted on a      *)
(* later move has a placement orthogonally next to a cell that held a tile *)
(* before the play.                                                        *)
(***************************************************************************)
C21_AnchorRule ==
  [][PlayAccepted' =>
       IF isFirstMove
       THEN /\ <<BOARD_SIZE \div 2, BOARD_SIZE \div 2>> \in PlayedCells
            /\ Len(lastEvent'.input) >= 2 /\ Cardinality(PlayedCells) >= 2
       ELSE \E cell \in PlayedCells : Touches(cell, board)]_vars

\* a first move over the center was followed by an accepted play next to it
C21_Witness ==
  /\ PlayAccepted
  /\ Len(turnHistory) >= 2
  /\ \E i \in 1 .. Len(turnHistory) - 1 : turnHistory[i].action = "play"
  /\ turnHistory[Len(turnHistory)].action = "play"
  /\ <<7, 7>> \in DOMAIN board /\ ~Laid(7, 7)

\* the rows and the columns of the placements accepted in this step
PlayedRows == {cell[1] : cell \in PlayedCells}
PlayedCols == {cell[2] : cell \in PlayedCells}

(***************************************************************************)
(* C22.  Geometry rule: the placements of an accepted play lie in a single *)
(* row or in a single column, and on the board after the play every cell   *)
(* from the lowest to the highest placed coordinate along that line holds  *)
(* a tile.                                                                 *)
(***************************************************************************)
C22_GeometryRule ==
  [][PlayAccepted' =>
       \/ /\ Cardinality(PlayedRows) = 1
          /\ \A r \in PlayedRows : \A c \in Min(PlayedCols) .. Max(PlayedCols) :
                <<r, c>> \in DOMAIN board'
       \/ /\ Cardinality(PlayedCols) = 1
          /\ \A c \in PlayedCols : \A r \in Min(PlayedRows) .. Max(PlayedRows) :
                <<r, c>> \in DOMAIN board']_vars

\* an accepted play of two tiles or more lies along one line of the board
C22_Witness ==
  /\ PlayAccepted
  /\ Len(lastEvent.input) >= 2
  /\ Cardinality({<<lastEvent.input[i].row, lastEvent.input[i].col>> :
                    i \in 1 .. Len(lastEvent.input)}) >= 2
  /\ Len(turnHistory) >= 2

\* the membership test, applied to the text of a run
RunKnown(run, b1) ==
  {RunText(run, b1)[k] : k \in 1 .. run.to - run.from + 1} \subseteq DictionaryLetters

C24_BoardAppendOnly ==
  [][\A cell \in DOMAIN board :
       cell \in DOMAIN board' /\ board'[cell].id = board[cell].id]_vars

\* a second play was committed on a board that already held the first one
C24_Witness ==
  /\ PlayAccepted
  /\ Cardinality({i \in 1 .. Len(turnHistory) : turnHistory[i].action = "play"}) >= 2
  /\ Cardinality(DOMAIN board) >= 3

\* the grace timers pending for participant pid
GraceTimers(pid) == {t \in liveTimers : t.kind = "grace" /\ t.player = pid}
\* the seats in turn order
Seats == [i \in 1 .. Len(players) |-> players[i].id]
\* this step is an accepted RECONNECT
ReconnectAccepted == lastEvent'.type = "RECONNECT" /\ lastEvent'.ok

(***************************************************************************)
(* C25.  An accepted reconnect leaves every rack, every score, the turn    *)
(* order and the turn index as they were, marks the participant connected *)
(* and leaves no grace timer pending for them, so that no grace timer      *)
(* armed by an earlier disconnect can remove the participant.              *)
(***************************************************************************)
C25_ReconnectKeepsSeat ==
  [][ReconnectAccepted =>
       LET pid == connPlayerId'[lastEvent'.conn] IN
       /\ Racks' = Racks /\ Scores' = Scores /\ Seats' = Seats
       /\ currentPlayerIndex' = currentPlayerIndex
       /\ \A i \in 1 .. Len(players') : players'[i].id = pid => players'[i].connected
       /\ \A t \in liveTimers' : ~(t.kind = "grace" /\ t.player = pid)]_vars

\* the participants whose grace timer fires in this step
Expired ==
  IF lastEvent'.type = "GRACE_TIMEOUT"
  THEN {t.player : t \in {u \in liveTimers \ liveTimers' : u.kind = "grace"}}
  ELSE {}

(***************************************************************************)
(* C26.  Grace expiry: when the grace timer of a participant fires, the    *)
(* participant was still a member (so the caller is notified once), and    *)
(* afterwards they are no member of the room, hold no seat in the turn     *)
(* order, and a reconnect under their identity fails.                      *)
(***************************************************************************)
C26_GraceExpiryRemoves ==
  [][\A pid \in Expired :
       /\ pid \in DOMAIN roomPlayers
       /\ pid \notin DOMAIN roomPlayers'
       /\ \A i \in 1 .. Len(players') : players'[i].id # pid
       /\ \A c \in Conns : ~reconnectPlayer(R', pid, c).ok]_vars

\* this step is the close of a connection whose participant is a member of the room
Disconnects(pid) ==
  /\ lastEvent'.type = "close" /\ lastEvent'.ok
  /\ pid = connPlayerId[lastEvent'.conn]
  /\ pid \in DOMAIN roomPlayers

(***************************************************************************)
(* C27.  Disconnect by phase: outside playing a disconnect removes the     *)
(* participant from the room at once and arms no timer, and in waiting it  *)
(* also takes their seat from the session; while playing it arms a grace   *)
(* timer for them, keeps them in the room and leaves seats, racks and      *)
(* scores untouched.                                                       *)
(***************************************************************************)
C27_DisconnectByPhase ==
  [][\A pid \in Conns : Disconnects(pid) =>
       IF phase = "playing"
       THEN /\ \E t \in liveTimers' \ liveTimers : t.kind = "grace" /\ t.player = pid
            /\ pid \in DOMAIN roomPlayers'
            /\ Seats' = Seats /\ Racks' = Racks /\ Scores' = Scores
       ELSE /\ pid \notin DOMAIN roomPlayers'
            /\ liveTimers' \subseteq liveTimers
            /\ phase = "waiting" => \A i \in 1 .. Len(players') : players'[i].id # pid
            /\ phase = "finished" => Seats' = Seats /\ Racks' = Racks /\ Scores' = Scores]_vars

\* a participant dropped out of a finished game and left the room at once
C27_Witness ==
  /\ lastEvent.type = "close" /\ lastEvent.ok
  /\ phase = "finished"
  /\ connPlayerId[lastEvent.conn] \notin DOMAIN roomPlayers
  /\ \E i \in 1 .. Len(players) : players[i].id = connPlayerId[lastEvent.conn]
  /\ GraceTimers(connPlayerId[lastEvent.conn]) = {}

\* the room's limit on participants (src/server/src/index.ts:99)
RoomCap == 4

\* the step answers a JOIN_ROOM message
JoinAsked == lastEvent'.type = "JOIN_ROOM" /\ lastEvent' # lastEvent

(***************************************************************************)
(* C28.  Join admission: a join is rejected, and changes neither the room  *)
(* nor the session, when the room does not exist, when the session is not  *)
(* in waiting, or when the room already has 4 participants; a session      *)
(* never has more than 4 participants, and its participant list never      *)
(* grows once the game has started.                                        *)
(***************************************************************************)
C28_JoinAdmission ==
  [][/\ (/\ JoinAsked
         /\ \/ ROOM \notin rooms
            \/ phase # "waiting"
            \/ Cardinality(DOMAIN roomPlayers) >= RoomCap)
        => /\ ~lastEvent'.ok
           /\ players' = players
           /\ roomPlayers' = roomPlayers
     /\ Len(players') <= RoomCap
     /\ phase # "waiting" => Len(players') <= Len(players)]_vars

\* a fifth connection asked to join a waiting room of four and was refused
C28_Witness ==
  /\ lastEvent.type = "JOIN_ROOM" /\ ~lastEvent.ok
  /\ ROOM \in rooms /\ phase = "waiting"
  /\ Len(players) = RoomCap
  /\ Cardinality(DOMAIN roomPlayers) = RoomCap
  /\ lastEvent.conn \notin DOMAIN roomPlayers

\* the session as a voluntary pass of the turn-holder would leave it
VoluntaryPass == pass(G, currentPlayerId(G))

\* the pending deadlines of a timer set
Deadlines(live) == {t \in live : t.kind = "turn"}

(***************************************************************************)
(* C29.  Forced pass equals voluntary pass: when a deadline expires in a   *)
(* playing session, the pass counter, turn history, turn index, phase,     *)
(* scores and re-armed deadline are those a pass submitted by the          *)
(* turn-holder would have produced, and the pass is recorded for the       *)
(* turn-holder whether or not they are connected.                          *)
(***************************************************************************)
C29_ForcedPassEqualsPass ==
  [][(lastEvent'.type = "TURN_TIMEOUT" /\ lastEvent' # lastEvent /\ phase = "playing")
       => /\ VoluntaryPass.error = "none"
          /\ consecutivePasses' = VoluntaryPass.g.consecutivePasses
          /\ turnHistory' = VoluntaryPass.g.turnHistory
          /\ currentPlayerIndex' = VoluntaryPass.g.currentPlayerIndex
          /\ phase' = VoluntaryPass.g.phase
          /\ players' = VoluntaryPass.g.players
          /\ turnTimer' = VoluntaryPass.g.turnTimer
          /\ Deadlines(liveTimers') = Deadlines(VoluntaryPass.g.live)
          /\ turnHistory'[Len(turnHistory')].playerId = currentPlayerId(G)
          /\ turnHistory'[Len(turnHistory')].action = "pass"]_vars

\* a deadline ran out on a turn-holder who was disconnected
C29_Witness ==
  /\ lastEvent.type = "TURN_TIMEOUT" /\ lastEvent.ok
  /\ Len(turnHistory) > 0
  /\ turnHistory[Len(turnHistory)].action = "pass"
  /\ \E i \in 1 .. Len(players) :
       /\ players[i].id = turnHistory[Len(turnHistory)].playerId
       /\ ~players[i].connected

\* w is the first seat, in join order, among those with the highest score
TopSeat(w) ==
  \E i \in 1 .. Len(players) :
    /\ w.id = players[i].id
    /\ w.score = players[i].score
    /\ \A j \in 1 .. Len(players) : players[j].score <= players[i].score
    /\ \A j \in 1 .. i - 1 : players[j].score < players[i].score

(***************************************************************************)
(* C30.  Winner selection: getWinner returns no winner unless the phase is *)
(* finished; in a finished session it returns a seated participant whose   *)
(* score is the highest of all seats, the earliest in join order when      *)
(* several share it.                                                       *)
(***************************************************************************)
C30_WinnerSelection ==
  IF phase # "finished" THEN getWinner(G) = NoWinner
  ELSE getWinner(G) # NoWinner /\ TopSeat(getWinner(G))

\* a finished game whose two best scores are equal: the earlier seat wins
C30_Witness ==
  /\ phase = "finished"
  /\ \E i, j \in 1 .. Len(players) :
       /\ i < j
       /\ players[i].score = players[j].score
       /\ \A k \in 1 .. Len(players) : players[k].score <= players[i].score
       /\ getWinner(G).id = players[i].id

\* the seat whose turn it is before the step
Actor == currentPlayerIndex + 1
\* the tile ids named by the play accepted in this step
PlayedIds == {lastEvent'.input[i].tileId : i \in 1 .. Len(lastEvent'.input)}
\* the actor's rack without the tiles played
KeptRack ==
  LET Unplayed(t) == t.id \notin PlayedIds IN SelectSeq(Racks[Actor], Unplayed)
\* a pass was accepted in this step
PassAccepted == lastEvent'.type = "PASS" /\ lastEvent'.ok /\ turnHistory' # turnHistory

\* an accepted play puts every tile it names on its cell and off the rack
PlayMovesTiles ==
  /\ \A i \in 1 .. Len(lastEvent'.input) :
       /\ <<lastEvent'.input[i].row, lastEvent'.input[i].col>> \in DOMAIN board'
       /\ board'[<<lastEvent'.input[i].row, lastEvent'.input[i].col>>].id
            = lastEvent'.input[i].tileId
  /\ \A k \in 1 .. Len(KeptRack) : Racks'[Actor][k] = KeptRack[k]
\* the rack is topped up from the front of the pool
PlayRefills(target) ==
  /\ Len(Racks'[Actor]) = target
  /\ Racks'[Actor] = KeptRack \o SubSeq(tiles, 1, target - Len(KeptRack))
  /\ tiles' = SubSeq(tiles, target - Len(KeptRack) + 1, Len(tiles))
\* flags, history and turn after an accepted play
PlayBookkeeping ==
  /\ ~isFirstMove' /\ consecutivePasses' = 0
  /\ Len(turnHistory') = Len(turnHistory) + 1
  /\ SubSeq(turnHistory', 1, Len(turnHistory)) = turnHistory
  /\ turnHistory'[Len(turnHistory')].action = "play"
  /\ turnHistory'[Len(turnHistory')].playerId = players[Actor].id
  /\ currentPlayerIndex' = (currentPlayerIndex + 1) % Len(players)
\* a pass counts one and moves no tile
PassMovesNothing ==
  /\ consecutivePasses' = consecutivePasses + 1
  /\ board' = board /\ Racks' = Racks /\ tiles' = tiles

(***************************************************************************)
(* C31.  Commit effects: an accepted play takes the tiles it names off the *)
(* rack and puts them on their cells, tops the rack up from the front of   *)
(* the pool to min(RACK_SIZE, rack + pool), raises the actor's score by    *)
(* the turn total, clears the first-move flag and the pass counter,        *)
(* appends one play record and hands the turn to the next seat; an         *)
(* accepted pass raises the pass counter by one and changes no board,      *)
(* rack, pool or score.                                                    *)
(***************************************************************************)
C31_CommitEffects ==
  [][/\ PlayAccepted' =>
          /\ PlayMovesTiles
          /\ PlayRefills(Min({RACK_SIZE, Len(KeptRack) + Len(tiles)}))
          /\ Scores'[Actor] = Scores[Actor] + RecordedScore
          /\ PlayBookkeeping
     /\ PassAccepted => PassMovesNothing /\ Scores' = Scores]_vars

\* the rack of the turn-holder as validate receives it
TurnRack == rackMap(players[Actor].rack)
\* placements that break each precondition, and none, for the rack of the turn-holder
ProbeTileIds ==
  {players[Actor].rack[1].id, NumTiles}
    \cup {players[Actor].rack[j].id : j \in {j \in 1 .. Len(players[Actor].rack) :
                                                isBlank(players[Actor].rack[j])}}
ProbePlacements ==
  {Placement(t, cell[1], cell[2], ch) :
     t \in ProbeTileIds, cell \in {<<7, 7>>, <<7, 8>>, <<BOARD_SIZE, 7>>}, ch \in {"", "a"}}
ProbeLists == SeqsUpTo(ProbePlacements, 2)

\* the failure kinds of one placement, by the text of the rule
NotInRack(p) == \A j \in 1 .. Len(players[Actor].rack) : players[Actor].rack[j].id # p.tileId
OutOfBounds(p) == p.row < 0 \/ p.row >= BOARD_SIZE \/ p.col < 0 \/ p.col >= BOARD_SIZE
Occupied(p) == <<p.row, p.col>> \in DOMAIN board
BlankUnassigned(p) ==
  /\ \E j \in 1 .. Len(players[Actor].rack) :
       players[Actor].rack[j].id = p.tileId /\ isBlank(players[Actor].rack[j])
  /\ p.assignedChar = ""
Breaks(p) == NotInRack(p) \/ OutOfBounds(p) \/ Occupied(p) \/ BlankUnassigned(p)
\* the earliest kind one placement breaks
KindOf(p) ==
  IF NotInRack(p) THEN "tile not in rack"
  ELSE IF OutOfBounds(p) THEN "out of bounds"
  ELSE IF Occupied(p) THEN "cell occupied"
  ELSE "blank without character"
\* the earliest kind any placement of the list breaks
KindOfList(l) ==
  IF \E k \in 1 .. Len(l) : NotInRack(l[k]) THEN "tile not in rack"
  ELSE IF \E k \in 1 .. Len(l) : OutOfBounds(l[k]) THEN "out of bounds"
  ELSE IF \E k \in 1 .. Len(l) : Occupied(l[k]) THEN "cell occupied"
  ELSE "blank without character"
\* what validate reports for list l on the turn-holder's rack
Reported(l) == validate(board, l, TurnRack, isFirstMove).error
CanProbe == phase = "playing" /\ Len(players[Actor].rack) > 0

\* C32 as stated: the kind reported is the earliest kind broken anywhere in the list
C32_KindBeforePlacement ==
  CanProbe => \A l \in ProbeLists :
    (\E k \in 1 .. Len(l) : Breaks(l[k])) => Reported(l) = KindOfList(l)

(***************************************************************************)
(* C32.  Precondition order: an empty list is reported as such; otherwise  *)
(* the failure reported is that of the first placement, in list order,     *)
(* that breaks a precondition, and for that placement the earliest of:     *)
(* tile not in the rack, coordinate out of bounds, cell occupied, blank    *)
(* without an assigned character.                                          *)
(***************************************************************************)
C32_PlacementBeforeKind ==
  CanProbe => \A l \in ProbeLists :
    /\ l = << >> => Reported(l) = "no placements"
    /\ (\E k \in 1 .. Len(l) : Breaks(l[k])) =>
         Reported(l) = KindOf(l[Min({k \in 1 .. Len(l) : Breaks(l[k])})])

\* the turn-holder holds a blank: a list of that blank without a character followed
\* by a tile they do not hold is reported as the blank's failure
C32_Witness ==
  /\ CanProbe
  /\ \E l \in ProbeLists :
       /\ Len(l) = 2
       /\ BlankUnassigned(l[1]) /\ ~OutOfBounds(l[1]) /\ ~Occupied(l[1])
       /\ NotInRack(l[2])
       /\ Reported(l) = "blank without character"

\* the words validate returns for the play accepted in this step
FoundWords == validate(board, lastEvent'.input, TurnRack, isFirstMove).words
\* the run a returned word lies on, by its first and last tile
RunOf(w) ==
  LET first == w.tiles[1]
      last == w.tiles[Len(w.tiles)]
  IN [across |-> first.row = last.row,
      line |-> IF first.row = last.row THEN first.row ELSE first.col,
      from |-> IF first.row = last.row THEN first.col ELSE first.row,
      to |-> IF first.row = last.row THEN last.col ELSE last.row]
\* the tiles of w are the cells of its run in order, tagged new exactly on played cells
CoversRunOf(w, run) ==
  /\ Len(w.tiles) = run.to - run.from + 1
  /\ \A k \in 1 .. Len(w.tiles) :
       /\ <<w.tiles[k].row, w.tiles[k].col>> = RunCell(run, run.from + k - 1)
       /\ w.tiles[k].isNew = (<<w.tiles[k].row, w.tiles[k].col>> \in PlayedCells)
CoversRun(w) == CoversRunOf(w, RunOf(w))

\* ws holds each run of runs once and nothing else, tile by tile
ExactWords(ws, runs) ==
  /\ {RunOf(ws[i]) : i \in 1 .. Len(ws)} = runs
  /\ \A i, j \in 1 .. Len(ws) : RunOf(ws[i]) = RunOf(ws[j]) => i = j
  /\ \A i \in 1 .. Len(ws) : Len(ws[i].tiles) >= 2 /\ CoversRun(ws[i])

(***************************************************************************)
(* C33.  Word extraction is exact: the words validate returns for an       *)
(* accepted play are the maximal row and column runs of two or more tiles  *)
(* that hold a tile laid by the play, each once and nothing else, and a    *)
(* tile of a word is tagged new exactly when its cell is one of the play's *)
(* placements.                                                             *)
(***************************************************************************)
C33_WordExtraction ==
  [][PlayAccepted' =>
       \A ws \in {FoundWords} : \A runs \in {WordRuns(board, board')} :
         ExactWords(ws, runs)]_vars

\* two tiles laid side by side under the first word: one word along the row, reached
\* from both tiles, and one down each column
C33_Witness ==
  /\ PlayAccepted
  /\ Laid(8, 7) /\ Laid(8, 8)
  /\ ~Laid(7, 7) /\ ~Laid(7, 8)
  /\ <<7, 7>> \in DOMAIN board /\ <<7, 8>> \in DOMAIN board

\* the character a tile shows: the one assigned to it if any, else its own
ShownChar(tile) == IF tile.assignedChar # "" THEN tile.assignedChar ELSE baseChar(tile)
\* the text of w is, tile by tile, what the cells of board b1 show
ReadsAsShown(w, b1) ==
  \A k \in 1 .. Len(w.tiles) :
    w.word[k] = ShownChar(b1[<<w.tiles[k].row, w.tiles[k].col>>])

(***************************************************************************)
(* C34.  Word text: the text of every word formed by an accepted play is,  *)
(* cell by cell, the character assigned to the tile on that cell if it has *)
(* one and the tile's base character otherwise, for tiles laid by the play *)
(* and older ones, blank or not.                                           *)
(***************************************************************************)
C34_WordText ==
  [][PlayAccepted' =>
       \A ws \in {FoundWords} : \A i \in 1 .. Len(ws) : ReadsAsShown(ws[i], board')]_vars

\* the first n tiles of the pool, or all of it
Front(pool, n) == SubSeq(pool, 1, IF n < Len(pool) THEN n ELSE Len(pool))
\* draw(n) takes min(n, remaining) tiles off the front of the pool
DrawsFront(pool) ==
  \A n \in 0 .. RACK_SIZE + 1 :
    /\ draw(pool, n).drawn = Front(pool, n)
    /\ draw(pool, n).drawn \o draw(pool, n).rest = pool
\* drawToFill(k) draws min(max(0, RACK_SIZE - k), remaining) tiles
FillsFront(pool) ==
  \A k \in 0 .. RACK_SIZE + 2 :
    /\ drawToFill(pool, k).drawn = Front(pool, IF k < RACK_SIZE THEN RACK_SIZE - k ELSE 0)
    /\ drawToFill(pool, k).drawn \o drawToFill(pool, k).rest = pool
\* the rack of the actor without the tiles named by ids
RackWithout(ids) ==
  LET Unnamed(t) == \A i \in 1 .. Len(ids) : ids[i] # t.id IN SelectSeq(Racks[Actor], Unnamed)
\* the replacement of an exchange of ids comes off the pool as it was before the tiles
\* went back
ReplacedFromOldPool(ids) ==
  Racks'[Actor] = RackWithout(ids) \o Front(tiles, Len(ids))
\* no tile named by ids is in the actor's rack after the step
NoneComesBack(ids) == \A i \in 1 .. Len(ids) : ~Holds(Racks'[Actor], ids[i])
\* the tiles named by ids are in the pool after the step, without an assigned character
ReturnedUnassigned(ids) ==
  \A i \in 1 .. Len(ids) :
    /\ Holds(tiles', ids[i])
    /\ \A j \in 1 .. Len(tiles') : tiles'[j].id = ids[i] => tiles'[j].assignedChar = ""

(***************************************************************************)
(* C35.  Pool draw and exchange order: draw(n) takes exactly min(n,        *)
(* remaining) tiles off the front of the pool, drawToFill(k) takes         *)
(* min(max(0, RACK_SIZE - k), remaining); in an accepted exchange the      *)
(* replacement is drawn before the tiles handed in go back, so none of     *)
(* them returns to the participant in that exchange, and a tile that went  *)
(* back carries no assigned character.                                     *)
(***************************************************************************)
C35_DrawAndExchange ==
  [][/\ DrawsFront(tiles') /\ FillsFront(tiles')
     /\ ExchangeAccepted' =>
          /\ ReplacedFromOldPool(lastEvent'.input)
          /\ NoneComesBack(lastEvent'.input)
          /\ ReturnedUnassigned(lastEvent'.input)]_vars

\* the room is in the registry, and its participants
Registered == ROOM \in rooms
Members == DOMAIN roomPlayers
\* the step answers a join, a reconnect or a gameplay intent
IntentAnswered ==
  /\ lastEvent' # lastEvent
  /\ lastEvent'.type \in {"JOIN_ROOM", "RECONNECT", "START_GAME", "PLAY_TILES",
                            "EXCHANGE_TILES", "PASS"}

(***************************************************************************)
(* C36.  Room destruction: a room leaves the registry only in a step that  *)
(* removes its last participant, at a disconnect or at the expiry of a     *)
(* grace timer, and every such step removes it; a registered room has a    *)
(* participant; once the room is gone no join, reconnect or gameplay       *)
(* intent for its code succeeds or changes room or session.                *)
(***************************************************************************)
C36_RoomDestruction ==
  [][/\ (Registered /\ ~Registered') =>
          /\ Members # {} /\ Members' = {}
          /\ lastEvent'.type \in {"close", "GRACE_TIMEOUT"}
     /\ (Registered /\ Members # {} /\ Members' = {}) => ~Registered'
     /\ Registered' => Members' # {}
     /\ (~Registered /\ IntentAnswered) =>
          /\ ~lastEvent'.ok
          /\ UNCHANGED <<rooms, roomPlayers, hostId, gameVars>>]_vars

\* the last participant of a running game was removed when their grace timer expired,
\* and a reconnect to the room was refused afterwards
C36_Witness ==
  /\ ~Registered /\ hostId # NoPlayer
  /\ phase = "playing"
  /\ Members = {}
  /\ lastEvent.type = "RECONNECT" /\ ~lastEvent.ok

\* twice the number of seats
PassLimit == 2 * Len(players)
\* in a running game exactly one deadline is pending, armed for the turn in progress
OneDeadline ==
  /\ Cardinality(TurnTimers) = 1
  /\ \A t \in TurnTimers : t.h = turnTimer /\ t.turn = Len(turnHistory)
\* the history holds n records, all of them passes
OnlyPasses(n) ==
  Len(turnHistory) = n /\ \A i \in 1 .. n : turnHistory[i].action = "pass"

\* with deadlines that fire, every turn of a running game ends and the game finishes
TurnsEnd ==
  /\ \A n \in 0 .. 2 * DeadlineConns :
       (phase = "playing" /\ Len(turnHistory) = n) ~> (Len(turnHistory) > n)
  /\ (phase = "playing") ~> (phase = "finished")

(***************************************************************************)
(* C37.  As stated: with deadlines that fire every turn ends within one    *)
(* deadline, whoever holds it; when no participant acts the game finishes  *)
(* after exactly twice as many forced passes as there are seats, and no    *)
(* timer is armed after that.                                              *)
(***************************************************************************)
C37_NoTimerAfterFinish ==
  /\ [](phase = "playing" => OneDeadline /\ Len(turnHistory) < PassLimit)
  /\ [](phase = "finished" => OnlyPasses(PassLimit) /\ liveTimers = {})
  /\ TurnsEnd

(***************************************************************************)
(* C37, amended.  Liveness under deadlines: while the game runs one        *)
(* deadline is pending for the turn in progress, and with deadlines that   *)
(* fire every turn comes to an end, whoever holds it; when no participant  *)
(* acts, the game finishes after exactly twice as many forced passes as    *)
(* there are seats, and no turn deadline is armed after that (the grace    *)
(* timer of a participant who dropped may still be).                       *)
(***************************************************************************)
C37_DeadlineLiveness ==
  /\ [](phase = "playing" => OneDeadline /\ Len(turnHistory) < PassLimit)
  /\ [](phase = "finished" => OnlyPasses(PassLimit) /\ TurnTimers = {})
  /\ TurnsEnd

\* a game was passed to its end by deadlines alone, one seat removed from the room
\* and another disconnected with their grace timer still pending
C37_Witness ==
  /\ phase = "finished"
  /\ lastEvent.type = "TURN_TIMEOUT" /\ lastEvent.ok
  /\ OnlyPasses(PassLimit)
  /\ \E i \in 1 .. Len(players) : players[i].id \notin Members
  /\ \E i \in 1 .. Len(players) : players[i].id \in Members /\ ~players[i].connected
  /\ \E t \in liveTimers : t.kind = "grace"


\* the connection most recently associated with participant pid
CurrentWs(pid) == roomPlayers[pid].ws
\* this step is the close of a connection that participant pid has since replaced
SupersededClose(pid) ==
  /\ lastEvent'.type = "close" /\ lastEvent'.ok
  /\ connPlayerId[lastEvent'.conn] = pid
  /\ pid \in Members
  /\ CurrentWs(pid) # lastEvent'.conn
\* the connected flags of the seats, by participant
ConnectedFlags == {<<players[i].id, players[i].connected>> : i \in 1 .. Len(players)}

(***************************************************************************)
(* C38.  A participant whose current connection is open is never removed   *)
(* from the room: at most one grace timer is pending per participant, and  *)
(* the close of a connection they have replaced by a reconnect neither     *)
(* marks them disconnected nor arms a timer nor removes them.              *)
(***************************************************************************)
C38_OpenConnectionKeepsSeat ==
  /\ [](\A pid \in Members : Cardinality(GraceTimers(pid)) <= 1)
  /\ [][\A pid \in Members :
          /\ connOpen'[CurrentWs(pid)] => pid \in Members'
          /\ SupersededClose(pid) =>
                /\ ConnectedFlags' = ConnectedFlags
                /\ liveTimers' = liveTimers
                /\ pid \in Members']_vars


\* the cells of a set that a path of orthogonal steps joins to the cells seen
RECURSIVE Grow(_, _)
Grow(cells, seen) ==
  LET more == {c \in cells \ seen :
                 \E d \in seen : (c[1] = d[1] /\ (c[2] = d[2] + 1 \/ c[2] = d[2] - 1))
                                 \/ (c[2] = d[2] /\ (c[1] = d[1] + 1 \/ c[1] = d[1] - 1))}
  IN IF more = {} THEN seen ELSE Grow(cells, seen \cup more)
\* the cells form one orthogonally connected region
OneRegion(cells) == cells = {} \/ Grow(cells, {CHOOSE c \in cells : TRUE}) = cells
\* the center cell of the board
CenterCell == <<BOARD_SIZE \div 2, BOARD_SIZE \div 2>>

(***************************************************************************)
(* C39.  Board connectivity: the first-move flag is set exactly when the   *)
(* board is empty, and a board that is not empty has a tile on the center  *)
(* cell (7,7) and all its occupied cells in one orthogonally connected     *)
(* region.                                                                 *)
(***************************************************************************)
C39_BoardConnectivity ==
  /\ isFirstMove <=> DOMAIN board = {}
  /\ DOMAIN board # {} => CenterCell \in DOMAIN board /\ OneRegion(DOMAIN board)

\* a third move was accepted, the board turns a corner, and a tile lies on a cell
\* that a move apart from the board was sent for
C39_Witness ==
  /\ PlayAccepted
  /\ ~isFirstMove
  /\ Cardinality(DOMAIN board) >= 6
  /\ Cardinality({c[1] : c \in DOMAIN board}) >= 2
  /\ Cardinality({c[2] : c \in DOMAIN board}) >= 2
  /\ <<7, 10>> \in DOMAIN board


\* START_GAME sent by participant pid would start the game
CanStart(pid) == isHost(R, pid) /\ start(G).error = "none"

(***************************************************************************)
(* C40.  Host availability: while the room is waiting and has at least one *)
(* participant, its host is one of its participants, and a waiting room    *)
(* with two participants or more can be started by one of them.            *)
(***************************************************************************)
C40_HostAvailable ==
  (Registered /\ phase = "waiting" /\ Members # {}) =>
     /\ hostId \in Members
     /\ Cardinality(Members) >= 2 => \E pid \in Members : CanStart(pid)

====
